---------------------------- MODULE Spec2Model ----------------------------
(***************************************************************************)
(* Model of the NTFS $LogFile parser (logfile.py, layout.py, utils.py).    *)
(*                                                                         *)
(* The byte source is modelled in 8-byte words.  Every structure field the *)
(* parser decides on (copy.last_lsn, last_end_lsn, this_lsn,               *)
(* client_data_length) starts on an 8-byte boundary, and every page the    *)
(* parser reads or writes starts on a page boundary.  The contents of the  *)
(* source are not fixed in advance: a word gets its value the first time   *)
(* the parser reads it (variable orig) and keeps it from then on, so the   *)
(* behaviours cover every source whose words lie in the candidate sets.    *)
(* All word values stay below 2^31.  The two words of a log page that      *)
(* layout.dofixup reads, the multi sector header and the update sequence   *)
(* array, are kept as four 16-bit fields each.                             *)
(*                                                                         *)
(* get_log_page returns the page behind layout.dofixup.  The log pages of  *)
(* the model are shorter than a sector, so the fixup of a page whose       *)
(* usa_count is above 1 moves the bytes behind the array entry two bytes   *)
(* down and puts the entry at the end of the page, or fails with           *)
(* ValueError; the records iterator reads its structures from that page.   *)
(*                                                                         *)
(* Spec is the LogFile constructor (tail pages flushed to the log area)    *)
(* followed by one call of LogFile.records, get_restart_table,             *)
(* get_client_restart_area or get_client_restart_context; RestartSpec is   *)
(* get_lsn_restart_blocks over the first two pages of a file.  Spec takes  *)
(* logs whose system and log pages have the same size, and the generator   *)
(* semantics of Python 3.7 and later (PEP 479).  The other specifications  *)
(* are introduced where they are defined.                                  *)
(***************************************************************************)
EXTENDS Integers, Sequences, FiniteSets, TLC

----------------------------------------------------------------------------
(* Bounds of the model *)

\* number of pages of the byte source
NumPages == 4

\* highest sequence number a starting LSN carries
MaxSeq == 1

\* highest number of runs in the mapping pairs of $LogFile
MaxRuns == 3

\* highest number of attributes in the file record of $LogFile
MaxAttrs == 3

\* clusters of the volume that dump_logfile reads from
VolumeClusters == 200

----------------------------------------------------------------------------
(* Arithmetic helpers *)

RECURSIVE Pow2(_)
Pow2(n) == IF n <= 0 THEN 1 ELSE 2 * Pow2(n - 1)

\* int.bit_length()
RECURSIVE BitLength(_)
BitLength(n) == IF n = 0 THEN 0 ELSE 1 + BitLength(n \div 2)

\* a & b for naturals
RECURSIVE BitAnd(_, _)
BitAnd(a, b) ==
    IF a = 0 \/ b = 0 THEN 0
    ELSE (a % 2) * (b % 2) + 2 * BitAnd(a \div 2, b \div 2)

Min(a, b) == IF a < b THEN a ELSE b
Max(a, b) == IF a > b THEN a ELSE b

\* utils.qalign
qalign(num) == IF num % 8 # 0 THEN (num - (num % 8)) + 8 ELSE num

\* sizeof(layout.LogRecord)
SizeofLogRecord == 44

\* word index, inside a page, of RecordPageHeader.copy (byte 8)
CopyWord == 1

\* word index, inside a page, of RecordPageHeader.last_end_lsn (byte 32)
LastEndLsnWord == 4

\* word index, inside a record, of LogRecord.client_data_length (byte 24)
ClientDataLengthWord == 3

----------------------------------------------------------------------------
(* State *)

VARIABLES
    lcb,            \* LogfileControlBlock, from the restart block
    orig,           \* the source as first opened: word -> value, once read
    disk,           \* the source now: page -> [src, patched] or Zero
    stream_len,     \* length of the source in bytes
    wlog,           \* the writes done so far: <<[dest, image]>>
    pc,             \* position of the program
    err,            \* the exception that reached the caller, "" if none
    scan_pos,       \* get_buffer_pages: logfile_stream.tell()
    buffer_pages,   \* get_buffer_pages / flush_buffer_area: the tail pages
    flush_idx,      \* flush_buffer_area: index of the next tail page
    first_log_page, \* LogFile.first_log_page
    start_lsn,      \* records: the argument
    lsn,            \* records: lsn
    seqno,          \* records: seqno
    page_offset,    \* records: page_offset
    page_header,    \* records: page_header.copy.last_lsn
    record,         \* records: record (this_lsn, client_data_length)
    client_data,    \* records: client_data, as <<[off, len]>> of source bytes
    client_data_offset,    \* records: client_data_offset
    client_data_last_byte, \* records: client_data_last_byte
    last_yield,     \* this_lsn of the record yielded before, -1 if none
    yielded,        \* the LSNs of the records the consumer was given so far
    rfile,          \* get_lsn_restart_blocks: the first two pages of the file
    pages,          \* get_lsn_restart_blocks: pages
    fix_page,       \* get_lsn_restart_blocks: index of the page to fix up
    block_first,    \* get_lsn_restart_blocks: block_first
    block_second,   \* get_lsn_restart_blocks: block_second
    call,           \* the method of LogFile that runs the generator
    client,         \* get_client_restart_area: what the client array held
    result,         \* the value get_client_restart_area or get_restart_table returned
    context,        \* get_client_restart_context: the part being fetched
    conv_offset,    \* foffset2lsn: offset
    conv_seqno,     \* foffset2lsn: sequence_number
    conv_lsn,       \* the LSN foffset2lsn returned
    run_data,       \* parse_runlist: data, the bytes of the mapping pairs
    runlist_offset, \* parse_runlist: runlist_offset
    lcn,            \* parse_runlist: lcn
    vcn,            \* parse_runlist: vcn
    runlist,        \* parse_runlist: runlist, <<[vcn, lcn, length]>>
    extent,         \* dump_logfile: index of the run being copied
    dump_length,    \* dump_logfile: length, clusters of the run still to copy
    volume_pos,     \* dump_logfile: read position of the volume, in clusters
    reads,          \* dump_logfile: the reads done, <<[extent, from, clusters]>>
    page_cache,     \* lru_cache of get_log_page, least recently used first
    cache_call,     \* the last call of get_log_page: [self, page]
    bootsector,     \* dump_logfile: the fields of the boot sector used
    file_record_size, \* dump_logfile: file_record_size
    logfile_offset, \* dump_logfile: logfile_offset, where MFT record 2 is read
    mft_record,     \* MFT record 2 on the volume: its update sequence array
                    \* and sector tails
    mft_buffer,     \* dump_logfile: buffer, the same slots of it
    file_record,    \* dump_logfile: the attributes of the file record
    segment,        \* find_data_stream: segment, as its offset in the attributes
    data_stream,    \* dump_logfile: data_stream
    round,          \* which LogFile is being made over the source: 1 or 2
    first_round     \* what the first LogFile left: first_log_page, the source

vars == <<lcb, orig, disk, stream_len, wlog, pc, err, scan_pos, buffer_pages,
          flush_idx, first_log_page, start_lsn, lsn, seqno, page_offset, page_header,
          record, client_data, client_data_offset, client_data_last_byte,
          last_yield, yielded, rfile, pages, fix_page, block_first,
          block_second, call, client, result, context, conv_offset, conv_seqno,
          conv_lsn, run_data, runlist_offset, lcn, vcn, runlist, extent,
          dump_length, volume_pos, reads, page_cache, cache_call, bootsector,
          file_record_size, logfile_offset, mft_record, mft_buffer,
          file_record, segment, data_stream, round, first_round>>

srcVars == <<orig, disk, stream_len, wlog>>
ctorVars == <<scan_pos, buffer_pages, flush_idx, first_log_page>>
iterVars == <<start_lsn, lsn, seqno, page_offset, page_header, record,
              client_data, client_data_offset, client_data_last_byte,
              last_yield, yielded>>
rstVars == <<rfile, pages, fix_page, block_first, block_second>>
callVars == <<call, client, result, context>>
convVars == <<conv_offset, conv_seqno, conv_lsn>>
cacheVars == <<page_cache, cache_call>>
mftVars == <<bootsector, file_record_size, logfile_offset, mft_record,
             mft_buffer, file_record, segment, data_stream>>
againVars == <<round, first_round>>
dumpVars == <<run_data, runlist_offset, lcn, vcn, runlist, extent,
              dump_length, volume_pos, reads>>

\* Python's None
None == [page |-> -1, current_lsn |-> <<0, 0, 0, 0>>]

----------------------------------------------------------------------------
(* LogfileControlBlock and the LSN conversions *)

\* LogFile.__init__: file_size.bit_length() - 3
file_size_bits == BitLength(lcb.file_size) - 3

log_page_mask == lcb.log_page_size - 1

\* LogFile.lsn2seqno; lsn is below 2^64, so the mask keeps it
lsn2seqno(l) == l \div Pow2(file_size_bits)

\* LogFile.lsn2foffset: ((lsn << b) mod 2^64) >> (b - 3) keeps the low
\* 64 - b bits of lsn and scales them by 8
lsn2foffset(l) == (l % Pow2(64 - lcb.sequence_number_bits)) * 8

\* LogFile.lsn2poffset; lsn is below 2^32
lsn2poffset(l) == BitAnd(l * 8, lcb.log_page_size - 1)

\* LogFile.foffset2page: offset & ~(system_page_size - 1)
foffset2page(offset) == offset - BitAnd(offset, lcb.system_page_size - 1)

\* LogFile.lsn2page
lsn2page(l) == foffset2page(lsn2foffset(l))

\* an LSN that holds the file offset in bytes, not in 8-byte units
foffset2lsnUnshifted(offset, sequence_number) ==
    offset + sequence_number * Pow2(file_size_bits)

\* LogFile.foffset2lsn; sequence_number << file_size_bits is below 2^64
foffset2lsn(offset, sequence_number) ==
    (offset \div 8) + sequence_number * Pow2(file_size_bits)

\* LogFile.next_log_page
next_log_page(current_page) ==
    IF current_page + lcb.log_page_size >= lcb.file_size
    THEN first_log_page
    ELSE current_page + lcb.log_page_size


----------------------------------------------------------------------------
(* The byte source *)

\* bytes of a unit of the source that is read and written as a whole
UnitSize == Min(lcb.system_page_size, lcb.log_page_size)

WordsPerUnit == UnitSize \div 8

\* a unit that holds zeros: a hole, or bytes past the end of the source
Zero == [src |-> -1, patched |-> FALSE]

\* the unit stored at index g of the source d
UnitAt(d, g) == IF g \in DOMAIN d THEN d[g] ELSE Zero

\* the word of the original source that word k of unit u shows (-1: a zero).
\* A patched unit shows its last_end_lsn word in place of its copy word
\* (flush_buffer_area, logfile.py:386).
SrcOf(u, k) ==
    IF u.src = -1 THEN -1
    ELSE IF u.patched /\ k = CopyWord
         THEN u.src * WordsPerUnit + LastEndLsnWord
         ELSE u.src * WordsPerUnit + k

\* the original word that the byte offset off of the source d shows
WordSrc(d, off) == SrcOf(UnitAt(d, off \div UnitSize), (off % UnitSize) \div 8)

\* the values a read of original word s can give, cand when not read before
Vals(o, s, cand) ==
    IF s = -1 THEN {0}
    ELSE IF s \in DOMAIN o THEN {o[s]} ELSE cand

\* the original source after word s was read as v
Learn(o, s, v) ==
    IF s = -1 \/ s \in DOMAIN o THEN o ELSE o @@ (s :> v)

\* bytearray(system_page_size) filled by readinto at byte offset off
PageImage(d, off) ==
    [k \in 1..(lcb.system_page_size \div UnitSize) |->
        UnitAt(d, (off \div UnitSize) + k - 1)]

\* the image with copy.last_lsn overwritten by last_end_lsn
\* (flush_buffer_area, logfile.py:383-387)
PatchLastLsn(image) ==
    [image EXCEPT ![1] = IF @.src = -1 THEN @ ELSE [@ EXCEPT !.patched = TRUE]]

\* logfile_stream.seek(off); logfile_stream.write(image)
WritePage(d, off, image) ==
    LET first == off \div UnitSize
        units == first..(first + Len(image) - 1)
    IN  [g \in DOMAIN d \cup units |->
            IF g \in units THEN image[g - first + 1] ELSE d[g]]

\* bytearray(log_page_size) filled by readinto at byte offset off
LogPageImage(d, off) ==
    [k \in 1..(lcb.log_page_size \div UnitSize) |->
        UnitAt(d, (off \div UnitSize) + k - 1)]

\* The words of a page that are kept as four 16-bit slots, lowest first,
\* in place of a number: the multi sector header at byte 0 (magic, usa_ofs,
\* usa_count) and the update sequence array at byte 40.
HeaderWord == 0
UsaWord == 5
SlotWords == {HeaderWord, UsaWord}

ZeroSlots == <<0, 0, 0, 0>>

\* the multi sector headers tried for an unread log page: a page of zero
\* bytes, whose usa_count is 0, and magic RCRD with the update sequence
\* array behind the page header, holding the update sequence number and
\* one entry
MultiSectorHeaders == { ZeroSlots, <<17234, 17490, 40, 2>> }

\* the update sequence arrays tried: the update sequence number 5, the
\* entry, and the two bytes behind it, which are the number again or not
UpdateSequenceArrays == { <<5, 7, t, 0>> : t \in {5, 6} }

\* a value of 2^31 or more, which no LSN and no length of the model equals
TooBig == -1

\* the slots of a number below 2^31
SlotsOfNumber(v) == <<v % 65536, v \div 65536, 0, 0>>

\* the values a word w of a page can give when its original word s is
\* read: what was read before, else the numbers cand for the word main,
\* which the read is about, the headers and arrays above for the words
\* that hold them, and 0 for any other word
SlotWordVals(o, s, w, main, cand) ==
    IF w \in SlotWords
    THEN IF s = -1 THEN {ZeroSlots}
         ELSE IF s \in DOMAIN o THEN {o[s]}
         ELSE { SlotsOfNumber(v) : v \in IF w = main THEN cand ELSE {} }
              \cup IF w = HeaderWord THEN MultiSectorHeaders
                   ELSE IF w = main THEN {}
                   ELSE UpdateSequenceArrays
    ELSE Vals(o, s, IF w = main THEN cand ELSE {0})

\* slot q of the word w of a page, whose value is v
SlotOf(w, v, q) ==
    IF w \in SlotWords THEN v[q + 1]
    ELSE IF q = 0 THEN v % 65536
    ELSE IF q = 1 THEN v \div 65536
    ELSE 0

\* the little-endian number in a sequence of two or four slots
NumberOfSlots(s) ==
    IF s[2] >= 32768 \/ \E i \in 3..Len(s) : s[i] # 0
    THEN TooBig
    ELSE s[1] + 65536 * s[2]

\* layout.dofixup(page) on a log page, which is shorter than one sector of
\* 0x200 bytes: page[sector_size * i - 2:sector_size * i] is the empty
\* slice behind the end of the bytearray.  Assigning it to the array entry i
\* takes the entry out of the page, the bytes behind it move down by two,
\* and assigning the entry to the empty slice puts it behind the end.  The
\* check then compares the two bytes that moved into the place of the entry
\* with the update sequence number.  header and usa are the slots of the
\* multi sector header and of the array.
dofixupLogPage(header, usa) ==
    LET n == IF header[4] > 1 THEN header[4] - 1 ELSE 0
    IN  [ok |-> \A t \in 1..n : usa[2 * t + 1] = usa[1],
         usa_ofs |-> header[3],
         moved |-> n]

\* the slot of the page as read that slot j of the page image img shows,
\* after dofixup moved img.moved entries out of the array at img.usa_ofs
MovedSlot(img, j) ==
    LET u == img.usa_ofs \div 2
        n == img.moved
        L == lcb.log_page_size \div 2
    IN  IF n = 0 \/ j <= u THEN j
        ELSE IF j <= u + n THEN u + 2 * (j - u)
        ELSE IF j < L - n THEN j + n
        ELSE u + 2 * (j - (L - n) + 1) - 1

\* the original word behind the word w of the page image img
ImageWordSrc(img, w) ==
    SrcOf(img.units[(w \div WordsPerUnit) + 1], w % WordsPerUnit)

\* reading count slots of the page image img from slot j on: the values
\* the slots can have, each with the original source it is read from.  The
\* word main of the page is drawn from cand when it was not read before.
RECURSIVE SlotReads(_, _, _, _, _, _)
SlotReads(o, img, j, count, main, cand) ==
    IF count = 0 THEN { [orig |-> o, slots |-> << >>] }
    ELSE LET s == MovedSlot(img, j)
             w == s \div 4
             src == ImageWordSrc(img, w)
         IN UNION {
              { [orig |-> r.orig,
                 slots |-> <<SlotOf(w, v, s % 4)>> \o r.slots] :
                  r \in SlotReads(IF src = -1 THEN o ELSE Learn(o, src, v),
                                  img, j + 1, count - 1, main, cand) } :
              v \in SlotWordVals(o, src, w, main, cand) }

\* a field of size bytes (4 or 8) read at the byte offset off of the page
\* image img: the values it can have, each with the source it is read from
ImageRead(o, img, off, size, cand) ==
    { [orig |-> r.orig, value |-> NumberOfSlots(r.slots)] :
        r \in SlotReads(o, img, off \div 2, size \div 2, off \div 8, cand) }

\* functools.lru_cache(maxsize=4) on get_log_page
CacheSize == 4

\* the LogFile objects that call get_log_page; the LogFile of Init is 1
Instances == {1, 2}

\* the position in the cache c of the entry for the arguments (self, page),
\* 0 when there is none; the cache belongs to the function, its key is the
\* pair of arguments
CacheIndex(c, self, page) ==
    IF \E k \in DOMAIN c : c[k].self = self /\ c[k].page = page
    THEN CHOOSE k \in DOMAIN c : c[k].self = self /\ c[k].page = page
    ELSE 0

\* the sequence c without its element k
Without(c, k) == SubSeq(c, 1, k - 1) \o SubSeq(c, k + 1, Len(c))

\* lru_cache: the cache after a call get_log_page(self, page) that
\* returned.  A hit moves the entry to the most recent place; a miss stores
\* image, the page the call made, dropping the least recently used entry
\* of a full cache.
CacheAfter(c, self, page, image) ==
    LET k == CacheIndex(c, self, page)
    IN  IF k # 0
        THEN Append(Without(c, k), c[k])
        ELSE LET entry == [self |-> self, page |-> page, image |-> image]
             IN  IF Len(c) >= CacheSize
                 THEN Append(Tail(c), entry)
                 ELSE Append(c, entry)

\* the page a miss of get_log_page(self, page) makes of the source d, for
\* the multi sector header and the update sequence array the page holds
FixedLogPage(d, page, header, usa) ==
    LET fixed == dofixupLogPage(header, usa)
    IN  [units |-> LogPageImage(d, page),
         usa_ofs |-> fixed.usa_ofs,
         moved |-> fixed.moved]

\* get_log_page(self, page) with the cache c over the source d, of which o
\* was read so far: the outcomes of the call.  first holds the numbers the
\* first word of the page is tried with, besides the multi sector headers.
\* A hit returns the cached page and reads nothing.  A miss reads the page
\* and does the fixup, whose loop compares with the update sequence number
\* when usa_count is above 1; when dofixup raises, nothing is stored in the
\* cache.
get_log_page(c, d, o, self, page, first) ==
    LET k == CacheIndex(c, self, page)
        raw == [units |-> LogPageImage(d, page), usa_ofs |-> 0, moved |-> 0]
    IN  IF k # 0
        THEN { [ok |-> TRUE, orig |-> o, image |-> c[k].image,
                cache |-> CacheAfter(c, self, page, c[k].image)] }
        ELSE UNION {
               { LET fixed == dofixupLogPage(h.slots, u.slots)
                     image == FixedLogPage(d, page, h.slots, u.slots)
                 IN  [ok |-> fixed.ok, orig |-> u.orig, image |-> image,
                      cache |-> IF fixed.ok
                                THEN CacheAfter(c, self, page, image)
                                ELSE c] :
                   u \in IF h.slots[4] > 1
                         THEN SlotReads(h.orig, raw, 4 * UsaWord, 4, -1, {})
                         ELSE { [orig |-> h.orig, slots |-> ZeroSlots] } } :
               h \in SlotReads(o, raw, 4 * HeaderWord, 4, HeaderWord, first) }

\* a get_log_page that stores the page it read, with copy.last_lsn set to
\* last_end_lsn, at its place in the source
StreamAfterPageStored(d, page) ==
    WritePage(d, page, PatchLastLsn(PageImage(d, page)))

\* get_log_page: the source after logfile_stream.seek(page) and readinto;
\* the fixup is done on the bytearray read, nothing is written
StreamAfterRead(d, page) == d

----------------------------------------------------------------------------
(* Inputs: control blocks, starting LSNs and the values an unread word of   *)
(* the source may hold                                                     *)

\* seq_number_bits of the restart area of a log of this size, as it goes
\* with file_size_bits: 64 - seq_number_bits = bitlength(file_size) - 3, the
\* bits that lsn2seqno skips and foffset2lsn leaves below the sequence
\* number
SeqBitsFor(size) == 64 - (BitLength(size) - 3)

\* seq_number_bits that leaves the offset just the bits which the highest
\* offset of the log, divided by 8, needs: one more than SeqBitsFor when
\* the size is a power of two, the same for any other size
SeqBitsTight(size) == 64 - (BitLength(size - 1) - 3)

\* the values of seq_number_bits tried for a log of this size; LogFile
\* takes the field from the restart area as it is (logfile.py:241-245)
SeqBitsTried(size) == {SeqBitsFor(size), SeqBitsTight(size)}

ControlBlocks ==
    { [system_page_size |-> 256, log_page_size |-> 256,
       file_size |-> NumPages * 256,
       sequence_number_bits |-> b,
       log_page_data_offset |-> 64] : b \in SeqBitsTried(NumPages * 256) }

\* control blocks of logs whose system pages and log pages differ in size
MixedControlBlocks ==
    UNION { { [system_page_size |-> sz, log_page_size |-> 768 - sz,
               file_size |-> NumPages * sz,
               sequence_number_bits |-> b,
               log_page_data_offset |-> 64] :
                 b \in SeqBitsTried(NumPages * sz) } : sz \in {256, 512} }

\* offsets of the log pages of the source, and of the page right behind it
PageOffsets ==
    { p * lcb.log_page_size : p \in 0..(lcb.file_size \div lcb.log_page_size) }

\* offsets of the pages behind the two restart pages: the positions
\* get_buffer_pages reads at, in steps of system_page_size, and the log
\* pages next_log_page walks, in steps of log_page_size
AreaOffsets ==
    { q \in PageOffsets \cup
             { p * lcb.system_page_size :
                 p \in 0..(lcb.file_size \div lcb.system_page_size) } :
        q >= 2 * lcb.system_page_size /\ q < lcb.file_size }

\* records(lsn): the starting LSNs tried
StartLsns ==
    { foffset2lsn(q + o, s) :
        q \in AreaOffsets,
        o \in {lcb.log_page_data_offset, lcb.log_page_size - 48},
        s \in 1..MaxSeq }

\* copy.last_lsn of an unread tail-zone page at offset q: an LSN of this page
\* (the zone ends), a file offset (v1.x) or an LSN of another page (v2.0+)
TailCopyValues(q) ==
    { foffset2lsn(q + lcb.log_page_data_offset, s) : s \in 1..(MaxSeq + 1) }
    \cup { d \in PageOffsets : d # lcb.system_page_size }
    \cup { foffset2lsn(d + o, s) :
             d \in AreaOffsets \ {q},
             o \in {lcb.log_page_data_offset, lcb.log_page_size - 8},
             s \in 1..(MaxSeq + 1) }

\* an unread last LSN met by the flush: older, equal and newer ones
FlushLsnValues(d) ==
    {0} \cup { foffset2lsn(d + lcb.log_page_data_offset, s) : s \in 1..(MaxSeq + 1) }

\* copy.last_lsn of an unread log page at offset p, read while the iterator
\* expects l in sequence s: l itself (the record is the last of its page),
\* the LSN of the second record slot or of the last word of the page, each
\* in the sequence before, the same and the next
LogCopyValues(p, l, s) ==
    {l} \cup
    { foffset2lsn(p + o, t) :
        o \in {lcb.log_page_data_offset + 64, lcb.log_page_size - 8},
        t \in {s - 1, s, s + 1} \cap Nat }

\* this_lsn of an unread record where l is expected
ThisLsnValues(l) == {l, 0}

\* client_data_length of an unread record: none, short, and longer than a page
ClientDataLengths == {0, 12, 200}

----------------------------------------------------------------------------
(* LogFile.__init__: get_buffer_pages and flush_buffer_area *)

\* a LogFile about to be constructed, with a control block out of blocks,
\* over a source nothing was read from
LogFileOver(blocks) ==
    /\ lcb \in blocks
    /\ orig = << >>
    /\ disk = [g \in 0..(lcb.file_size \div UnitSize - 1) |->
                  [src |-> g, patched |-> FALSE]]
    /\ stream_len = lcb.file_size
    /\ wlog = << >>
    /\ err = ""
    /\ scan_pos = 2 * lcb.system_page_size
    /\ buffer_pages = << >>
    /\ flush_idx = 1
    /\ first_log_page = 0
    /\ start_lsn = 0
    /\ lsn = 0
    /\ seqno = 0
    /\ page_offset = 0
    /\ page_header = 0
    /\ record = [this_lsn |-> 0, client_data_length |-> 0]
    /\ client_data = << >>
    /\ client_data_offset = 0
    /\ client_data_last_byte = 0
    /\ last_yield = -1
    /\ yielded = {}
    /\ call = ""
    /\ client = [present |-> FALSE, client_restart_lsn |-> 0]
    /\ result = [shape |-> "unset"]
    /\ context = ""
    /\ page_cache = << >>
    /\ cache_call = [self |-> 0, page |-> 0]
    /\ round = 1
    /\ first_round = [first_log_page |-> 0, disk |-> << >>, stream_len |-> 0]

LogFileInit == LogFileOver(ControlBlocks)

\* get_lsn_restart_blocks not called
RestartIdle ==
    /\ rfile = << >>
    /\ pages = << >>
    /\ fix_page = 1
    /\ block_first = None
    /\ block_second = None

\* no LSN converted
ConvertIdle ==
    /\ conv_offset = 0
    /\ conv_seqno = 0
    /\ conv_lsn = 0

\* parse_runlist: lcn, a cluster number or Python's None
Lcn(n) == [is_none |-> FALSE, n |-> n]
NoLcn == [is_none |-> TRUE, n |-> 0]

\* sizeof(layout.NonResidentAttributeRecord)
SizeofNonResidentAttributeRecord == 72

\* attribute.mapping_pairs_offset of the data attributes tried
MappingPairsOffset == 64

\* the first four bytes of an attribute: $STANDARD_INFORMATION, $DATA and
\* the end mark
TypeStandardInformation == <<16, 0, 0, 0>>
TypeData == <<128, 0, 0, 0>>
TypeEnd == <<255, 255, 255, 255>>

\* dump_logfile: data_stream not assigned
NoDataStream == [state |-> "unset", attribute |-> 0]

\* the slots kept of a file record of two sectors: the update sequence
\* array at usa_ofs 48, right behind the FileRecordSegmentHeader, and the
\* sector tails
MftSlots == 24..26 \cup {255, 511}

\* bytearray(file_record_size): the buffer before readinto, all zero
ZeroBuffer ==
    [usa_ofs |-> 0, usa_count |-> 0, slots |-> [j \in MftSlots |-> 0]]

\* a file record whose multi sector header names no update sequence array
PlainMftRecord ==
    [usa_ofs |-> 48, usa_count |-> 0, slots |-> [j \in MftSlots |-> 0]]

\* dump_logfile not called
DumpIdle ==
    /\ bootsector = [bytes_per_sector |-> 512, sectors_per_cluster |-> 1,
                     mft_lcn |-> 0, clusters_per_mft_record |-> 0]
    /\ file_record_size = 0
    /\ logfile_offset = 0
    /\ mft_record = PlainMftRecord
    /\ mft_buffer = ZeroBuffer
    /\ file_record = << >>
    /\ segment = 0
    /\ data_stream = NoDataStream
    /\ run_data = << >>
    /\ runlist_offset = 0
    /\ lcn = Lcn(0)
    /\ vcn = 0
    /\ runlist = << >>
    /\ extent = 1
    /\ dump_length = 0
    /\ volume_pos = 0
    /\ reads = << >>

Init ==
    /\ LogFileInit
    /\ RestartIdle
    /\ ConvertIdle
    /\ DumpIdle
    /\ pc = "scan"

\* get_buffer_pages: does copy.last_lsn say the tail zone ended at page_pos
TailZoneEnds(copy, page_pos) ==
    /\ BitAnd(log_page_mask, copy) # 0
    /\ lsn2page(copy) = page_pos

\* get_buffer_pages: one turn of the loop.  Once the read position is at or
\* past the end of the source every page read is zero-filled and appended, so
\* the loop never ends.
ScanPage ==
    /\ pc = "scan"
    /\ IF scan_pos >= stream_len
       THEN /\ pc' = "hang"
            /\ UNCHANGED <<orig, scan_pos, buffer_pages>>
       ELSE \E copy \in Vals(orig, WordSrc(disk, scan_pos + 8),
                             TailCopyValues(scan_pos)) :
              /\ orig' = Learn(orig, WordSrc(disk, scan_pos + 8), copy)
              /\ scan_pos' = scan_pos + lcb.system_page_size
              /\ IF TailZoneEnds(copy, scan_pos)
                 THEN pc' = "flush" /\ UNCHANGED buffer_pages
                 ELSE /\ pc' = "scan"
                      /\ buffer_pages' =
                            Append(buffer_pages, PageImage(disk, scan_pos))
    /\ UNCHANGED <<lcb, disk, stream_len, wlog, err, flush_idx,
                   first_log_page>>
    /\ UNCHANGED iterVars
    /\ UNCHANGED callVars
    /\ UNCHANGED <<rstVars, convVars, dumpVars, cacheVars, mftVars, againVars>>

\* flush_buffer_area: the offset a tail page is written back to
FlushTarget(copy) ==
    IF BitAnd(log_page_mask, copy) # 0 THEN lsn2page(copy) ELSE copy

\* flush_buffer_area: the last LSN of a tail page
BufferPageLastLsn(copy, last_end_lsn) ==
    IF BitAnd(log_page_mask, copy) # 0 THEN copy ELSE last_end_lsn

\* a flush that also writes a tail page as old as the log page
ShouldOverwriteOrEqual(buffer_page_last_lsn, log_page_last_lsn) ==
    buffer_page_last_lsn >= log_page_last_lsn

\* flush_buffer_area: is the tail page written over the log page
ShouldOverwrite(buffer_page_last_lsn, log_page_last_lsn) ==
    buffer_page_last_lsn > log_page_last_lsn

\* a flush that writes every tail page back as it was read
FlushImageAsRead(image, copy) == image

\* flush_buffer_area: the image written back
FlushImage(image, copy) ==
    IF BitAnd(log_page_mask, copy) = 0 THEN PatchLastLsn(image) ELSE image

\* flush_buffer_area: one turn of the loop over the tail pages
FlushPage ==
    /\ pc = "flush"
    /\ flush_idx <= Len(buffer_pages)
    /\ LET image == buffer_pages[flush_idx]
           copySrc == SrcOf(image[1], CopyWord)
           endSrc == SrcOf(image[1], LastEndLsnWord)
       IN \E copy \in Vals(orig, copySrc, {0}) :
          LET target == FlushTarget(copy)
              logSrc == WordSrc(disk, target + 8)
          IN \E log_last \in Vals(orig, logSrc, FlushLsnValues(target)) :
             LET o1 == Learn(orig, logSrc, log_last)
                 v1 == BitAnd(log_page_mask, copy) = 0
             IN \E last_end \in IF v1 THEN Vals(o1, endSrc,
                                                FlushLsnValues(target))
                                 ELSE {0} :
                /\ orig' = IF v1 THEN Learn(o1, endSrc, last_end) ELSE o1
                /\ IF ShouldOverwrite(BufferPageLastLsn(copy, last_end),
                                      log_last)
                   THEN /\ disk' = WritePage(disk, target,
                                             FlushImage(image, copy))
                        /\ stream_len' =
                              Max(stream_len, target + lcb.system_page_size)
                        /\ wlog' = Append(wlog,
                              [dest |-> target,
                               image |-> FlushImage(image, copy)])
                   ELSE UNCHANGED <<disk, stream_len, wlog>>
    /\ flush_idx' = flush_idx + 1
    /\ UNCHANGED <<lcb, pc, err, scan_pos, buffer_pages, first_log_page>>
    /\ UNCHANGED iterVars
    /\ UNCHANGED callVars
    /\ UNCHANGED <<rstVars, convVars, dumpVars, cacheVars, mftVars, againVars>>

\* flush_buffer_area: the offset of the first log page
FirstLogPage(count) == 2 * lcb.system_page_size + count * lcb.log_page_size

\* flush_buffer_area returns, __init__ stores first_log_page
FlushReturn ==
    /\ pc = "flush"
    /\ flush_idx > Len(buffer_pages)
    /\ first_log_page' = FirstLogPage(Len(buffer_pages))
    /\ buffer_pages' = << >>
    /\ pc' = "ready"
    /\ UNCHANGED <<lcb, err, scan_pos, flush_idx>>
    /\ UNCHANGED srcVars
    /\ UNCHANGED iterVars
    /\ UNCHANGED callVars
    /\ UNCHANGED <<rstVars, convVars, dumpVars, cacheVars, mftVars, againVars>>

----------------------------------------------------------------------------
(* LogFile.records *)

\* number of bytes gathered in client_data
RECURSIVE DataLen(_)
DataLen(segs) ==
    IF segs = << >> THEN 0 ELSE Head(segs).len + DataLen(Tail(segs))

\* a raise of StopIteration inside the generator reaches the caller as a
\* RuntimeError (PEP 479, Python 3.7 and later)
RaiseStopIteration == "RuntimeError"

\* records(lsn) is called and the consumer asks for the first record
RecordsCall ==
    /\ pc = "ready"
    /\ \E l0 \in StartLsns :
          /\ start_lsn' = l0
          /\ lsn' = l0
          /\ seqno' = lsn2seqno(l0)
    /\ pc' = "head"
    /\ UNCHANGED <<lcb, err, page_offset, page_header, record, client_data,
                   client_data_offset, client_data_last_byte, last_yield,
                   yielded>>
    /\ UNCHANGED srcVars
    /\ UNCHANGED ctorVars
    /\ call' = "records"
    /\ UNCHANGED <<client, result, context>>
    /\ UNCHANGED <<rstVars, convVars, dumpVars, cacheVars, mftVars, againVars>>

\* the assertion compiled away (python -O): any record header is accepted
LsnUnchecked(this, l) == TRUE

\* records: assert record.this_lsn == lsn
LsnMatches(this, l) == this = l

\* records: is the page older than the sequence the iterator is in
StalePage(copy, s) == lsn2seqno(copy) < s

\* client data taken right behind the record header, without the alignment
ClientDataOffsetUnaligned(l) == lsn2poffset(l) + SizeofLogRecord

\* records: the offset in the page where the client data of the record starts
ClientDataOffset(l) == qalign(lsn2poffset(l) + SizeofLogRecord)

\* records, from the loop test to the record header (logfile.py:407-436)
ReadHeader ==
    /\ pc = "head"
    /\ IF lsn2seqno(lsn) # seqno
       THEN /\ pc' = "done"
            /\ UNCHANGED <<orig, err, page_offset, page_header, record,
                           client_data, client_data_offset,
                           client_data_last_byte>>
            /\ UNCHANGED cacheVars
       ELSE
       LET page == lsn2page(lsn)
           offset == lsn2poffset(lsn)
       IN \E got \in get_log_page(page_cache, disk, orig, 1, page,
                                  IF offset = 0 THEN ThisLsnValues(lsn)
                                  ELSE {}) :
          /\ cache_call' = [self |-> 1, page |-> page]
          /\ page_cache' = got.cache
          /\ page_offset' = page
          /\ IF ~got.ok
             THEN \* dofixup raised
                  /\ pc' = "error"
                  /\ err' = "ValueError"
                  /\ orig' = got.orig
                  /\ UNCHANGED <<page_header, record, client_data,
                                 client_data_offset, client_data_last_byte>>
             ELSE
             \E copy \in ImageRead(got.orig, got.image, 8 * CopyWord, 8,
                                   LogCopyValues(page, lsn, seqno)) :
             /\ page_header' = copy.value
             /\ IF StalePage(copy.value, seqno)
                THEN /\ pc' = "error"
                     /\ err' = RaiseStopIteration
                     /\ orig' = copy.orig
                     /\ UNCHANGED <<record, client_data, client_data_offset,
                                    client_data_last_byte>>
                ELSE IF offset + SizeofLogRecord > lcb.log_page_size
                THEN \* the slice is too short for LogRecord.from_buffer_copy
                     /\ pc' = "error"
                     /\ err' = "ValueError"
                     /\ orig' = copy.orig
                     /\ UNCHANGED <<record, client_data, client_data_offset,
                                    client_data_last_byte>>
                ELSE \E this \in ImageRead(copy.orig, got.image, offset, 8,
                                           ThisLsnValues(lsn)) :
                     IF ~LsnMatches(this.value, lsn)
                     THEN /\ pc' = "error"
                          /\ err' = "AssertionError"
                          /\ orig' = this.orig
                          /\ record' = [this_lsn |-> this.value,
                                        client_data_length |-> 0]
                          /\ UNCHANGED <<client_data, client_data_offset,
                                         client_data_last_byte>>
                     ELSE \E length \in
                              ImageRead(this.orig, got.image,
                                        offset + 8 * ClientDataLengthWord, 4,
                                        ClientDataLengths) :
                          /\ orig' = length.orig
                          /\ record' = [this_lsn |-> this.value,
                                        client_data_length |-> length.value]
                          /\ client_data' = << >>
                          /\ client_data_offset' = ClientDataOffset(lsn)
                          /\ client_data_last_byte' =
                                page + ClientDataOffset(lsn)
                          /\ pc' = IF length.value > 0 THEN "data"
                                   ELSE "yielded"
                          /\ err' = err
    /\ disk' = IF lsn2seqno(lsn) # seqno THEN disk
               ELSE StreamAfterRead(disk, lsn2page(lsn))
    /\ UNCHANGED <<lcb, stream_len, wlog, start_lsn, lsn, seqno,
                   last_yield, yielded>>
    /\ UNCHANGED ctorVars
    /\ UNCHANGED callVars
    /\ UNCHANGED <<rstVars, convVars, dumpVars, mftVars, againVars>>

\* records: the number of bytes taken from the current page
BytesToCopy(data_offset, wanted) ==
    IF lcb.log_page_size - data_offset > 0
    THEN Min(lcb.log_page_size - data_offset, wanted)
    ELSE 0

\* records: the offset in a following page where client data goes on
ResumeOffset == lcb.log_page_data_offset

\* an iterator that never sees the log wrap
NeverWrapped(next_page, last_byte) == FALSE

\* records: does the step from the byte last_byte to the page next_page
\* enter the next sequence
Wrapped(next_page, last_byte) == next_page < last_byte

\* records: one turn of the loop that gathers the client data
\* (logfile.py:440-472)
ReadData ==
    /\ pc = "data"
    /\ \E got \in get_log_page(page_cache, disk, orig, 1, page_offset, {}) :
       /\ cache_call' = [self |-> 1, page |-> page_offset]
       /\ page_cache' = got.cache
       /\ IF ~got.ok
          THEN \* dofixup raised
               /\ pc' = "error"
               /\ err' = "ValueError"
               /\ orig' = got.orig
               /\ UNCHANGED <<seqno, page_offset, page_header, client_data,
                              client_data_offset, client_data_last_byte>>
          ELSE
          \E copy \in ImageRead(got.orig, got.image, 8 * CopyWord, 8,
                                LogCopyValues(page_offset, lsn, seqno)) :
          /\ orig' = copy.orig
          /\ page_header' = copy.value
          /\ IF lsn2seqno(copy.value) # seqno
             THEN /\ pc' = "error"
                  /\ err' = RaiseStopIteration
                  /\ UNCHANGED <<seqno, page_offset, client_data,
                                 client_data_offset, client_data_last_byte>>
             ELSE
             LET n == BytesToCopy(client_data_offset,
                        record.client_data_length - DataLen(client_data))
                 data == IF n > 0
                         THEN Append(client_data,
                                [off |-> page_offset + client_data_offset,
                                 len |-> n,
                                 moved |-> got.image.moved])
                         ELSE client_data
                 last_byte == IF n > 0
                              THEN page_offset + (n - 1) + client_data_offset
                              ELSE client_data_last_byte
                 next_page == next_log_page(page_offset)
             IN /\ client_data' = data
                /\ client_data_last_byte' = last_byte
                /\ err' = err
                /\ IF DataLen(data) = record.client_data_length
                   THEN /\ pc' = "yielded"
                        /\ UNCHANGED <<seqno, page_offset,
                                       client_data_offset>>
                   ELSE /\ pc' = "data"
                        /\ page_offset' = next_page
                        /\ seqno' = IF Wrapped(next_page, last_byte)
                                    THEN seqno + 1 ELSE seqno
                        /\ client_data_offset' = ResumeOffset
    /\ disk' = StreamAfterRead(disk, page_offset)
    /\ UNCHANGED <<lcb, stream_len, wlog, start_lsn, lsn, record,
                   last_yield, yielded>>
    /\ UNCHANGED ctorVars
    /\ UNCHANGED callVars
    /\ UNCHANGED <<rstVars, convVars, dumpVars, mftVars, againVars>>

\* records: the page and sequence number the next record is looked for in,
\* when the record yielded was the last of its page
NextPagePosition(last_byte, s) ==
    LET next_page_offset == next_log_page(foffset2page(last_byte))
    IN [page |-> next_page_offset,
        seqno |-> IF Wrapped(next_page_offset, last_byte) THEN s + 1 ELSE s]

\* records: the LSN behind the client data, on the same page
NextLsnOnPage(last_byte, s) == foffset2lsn(qalign(last_byte + 1), s)

\* records, after the yield: the consumer asks for the next record
\* (logfile.py:480-497)
Resume ==
    /\ pc = "yielded"
    /\ call = "records"
    /\ last_yield' = record.this_lsn
    /\ yielded' = yielded \cup {record.this_lsn}
    /\ IF page_header = lsn
       THEN LET pos == NextPagePosition(client_data_last_byte, seqno)
            IN /\ seqno' = pos.seqno
               /\ lsn' = foffset2lsn(pos.page + lcb.log_page_data_offset,
                                     pos.seqno)
       ELSE /\ seqno' = seqno
            /\ lsn' = NextLsnOnPage(client_data_last_byte, seqno)
    /\ pc' = "head"
    /\ UNCHANGED <<lcb, err, start_lsn, page_offset, page_header, record,
                   client_data, client_data_offset, client_data_last_byte>>
    /\ UNCHANGED srcVars
    /\ UNCHANGED ctorVars
    /\ UNCHANGED callVars
    /\ UNCHANGED <<rstVars, convVars, dumpVars, cacheVars, mftVars, againVars>>

----------------------------------------------------------------------------
(* get_client_restart_area and get_restart_table: next(self.records(lsn)) *)

\* sizes of the structures parsed from client data
SizeofRestartArea == 64
SizeofClientLogHeader == 40
SizeofRestartTable == 24

\* what the client array of the restart block can hold for the name asked
\* for: no such client, a client without a restart LSN, a client with one
ClientLookups ==
    { [present |-> FALSE, client_restart_lsn |-> 0] }
    \cup { [present |-> TRUE, client_restart_lsn |-> l] :
             l \in {0} \cup StartLsns }

\* get_client_restart_area: return None, None
NoRestartArea == [shape |-> "tuple", items |-> <<"None", "None">>]

\* get_client_restart_area(client_name), up to the call of records
ClientRestartAreaCall ==
    /\ pc = "ready"
    /\ call' = "get_client_restart_area"
    /\ \E found \in ClientLookups :
          /\ client' = found
          /\ IF ~found.present
             THEN /\ pc' = "error"
                  /\ err' = "ValueError"
                  /\ UNCHANGED <<result, start_lsn, lsn, seqno>>
             ELSE IF found.client_restart_lsn = 0
             THEN /\ pc' = "returned"
                  /\ result' = NoRestartArea
                  /\ UNCHANGED <<err, start_lsn, lsn, seqno>>
             ELSE /\ pc' = "head"
                  /\ start_lsn' = found.client_restart_lsn
                  /\ lsn' = found.client_restart_lsn
                  /\ seqno' = lsn2seqno(found.client_restart_lsn)
                  /\ UNCHANGED <<err, result>>
    /\ UNCHANGED <<lcb, context, page_offset, page_header, record, client_data,
                   client_data_offset, client_data_last_byte, last_yield,
                   yielded>>
    /\ UNCHANGED srcVars
    /\ UNCHANGED ctorVars
    /\ UNCHANGED <<rstVars, convVars, dumpVars, cacheVars, mftVars, againVars>>

\* get_client_restart_area: RestartArea.from_buffer_copy(data) of the first
\* record the generator yields
ClientRestartAreaReturn ==
    /\ pc = "yielded"
    /\ call = "get_client_restart_area"
    /\ IF DataLen(client_data) < SizeofRestartArea
       THEN /\ pc' = "error"
            /\ err' = "ValueError"
            /\ UNCHANGED result
       ELSE /\ pc' = "returned"
            /\ result' = [shape |-> "RestartArea", items |-> client_data]
            /\ UNCHANGED err
    /\ UNCHANGED <<lcb, call, client, context>>
    /\ UNCHANGED srcVars
    /\ UNCHANGED ctorVars
    /\ UNCHANGED iterVars
    /\ UNCHANGED <<rstVars, convVars, dumpVars, cacheVars, mftVars, againVars>>

\* get_restart_table(lsn), up to the call of records
RestartTableCall ==
    /\ pc = "ready"
    /\ call' = "get_restart_table"
    /\ \E l0 \in StartLsns :
          /\ start_lsn' = l0
          /\ lsn' = l0
          /\ seqno' = lsn2seqno(l0)
    /\ pc' = "head"
    /\ UNCHANGED <<lcb, err, client, result, context, page_offset, page_header,
                   record,
                   client_data, client_data_offset, client_data_last_byte,
                   last_yield, yielded>>
    /\ UNCHANGED srcVars
    /\ UNCHANGED ctorVars
    /\ UNCHANGED <<rstVars, convVars, dumpVars, cacheVars, mftVars, againVars>>

\* get_restart_table: the table behind client_header.redo_offset of the
\* first record the generator yields
RestartTableReturn ==
    /\ pc = "yielded"
    /\ call = "get_restart_table"
    /\ \E redo_offset \in {SizeofClientLogHeader, 192} :
          IF \/ DataLen(client_data) < SizeofClientLogHeader
             \/ DataLen(client_data) < redo_offset + SizeofRestartTable
          THEN /\ pc' = "error"
               /\ err' = "ValueError"
               /\ UNCHANGED result
          ELSE /\ pc' = "returned"
               /\ result' = [shape |-> "RestartTable", items |-> client_data]
               /\ UNCHANGED err
    /\ UNCHANGED <<lcb, call, client, context>>
    /\ UNCHANGED srcVars
    /\ UNCHANGED ctorVars
    /\ UNCHANGED iterVars
    /\ UNCHANGED <<rstVars, convVars, dumpVars, cacheVars, mftVars, againVars>>

----------------------------------------------------------------------------
(* get_client_restart_context: the four parts of the restart context, each  *)
(* fetched with next(self.records(lsn)) when the restart area gives it a    *)
(* length above 0                                                          *)

\* the parts in the order they are fetched
ContextParts ==
    <<"attribute_names", "dirty_pages", "open_attributes", "transactions">>

\* the part fetched behind the part named
NextPart(part) ==
    IF part = "transactions" THEN "" ELSE
    ContextParts[1 + CHOOSE i \in 1..3 : ContextParts[i] = part]

\* get_client_restart_context: return ClientRestartContext(...)
RestartContext == [shape |-> "ClientRestartContext"]

\* get_client_restart_context(client_restart_area) is called
ClientRestartContextCall ==
    /\ pc = "ready"
    /\ call' = "get_client_restart_context"
    /\ context' = ContextParts[1]
    /\ pc' = "context"
    /\ UNCHANGED <<lcb, err, client, result>>
    /\ UNCHANGED srcVars
    /\ UNCHANGED ctorVars
    /\ UNCHANGED iterVars
    /\ UNCHANGED <<rstVars, convVars, dumpVars, cacheVars, mftVars, againVars>>

\* get_client_restart_context: the test of the length of a part and, when it
\* is above 0, the call of records with the LSN of the part; the fields of
\* client_restart_area are read here for the first time
FetchPart ==
    /\ pc = "context"
    /\ \E length_above_0 \in BOOLEAN, part_lsn \in StartLsns :
          IF length_above_0
          THEN /\ start_lsn' = part_lsn
               /\ lsn' = part_lsn
               /\ seqno' = lsn2seqno(part_lsn)
               /\ pc' = "head"
               /\ UNCHANGED <<context, result>>
          ELSE /\ context' = NextPart(context)
               /\ pc' = IF context = "transactions" THEN "returned"
                        ELSE "context"
               /\ result' = IF context = "transactions" THEN RestartContext
                            ELSE result
               /\ UNCHANGED <<start_lsn, lsn, seqno>>
    /\ UNCHANGED <<lcb, err, call, client, page_offset, page_header, record,
                   client_data, client_data_offset, client_data_last_byte,
                   last_yield, yielded>>
    /\ UNCHANGED srcVars
    /\ UNCHANGED ctorVars
    /\ UNCHANGED <<rstVars, convVars, dumpVars, cacheVars, mftVars, againVars>>

\* parse_attribute_names(data): layout.ClientLogHeader(attribute_names)
\* hands the bytes to the constructor as the value of the first field
ParseAttributeNames == "TypeError"

\* parse_dirty_pages(table, data): dirty_page_entry_factory(1) hands an
\* empty bytearray to the constructor as the value of the first field
ParseDirtyPages == "TypeError"

\* parse_open_attributes and parse_transactions: an entry is made by handing
\* its bytes to the constructor as the value of the first field; a table
\* without entries gives the empty dict
ParseEntries(number_of_entries) ==
    IF number_of_entries > 0 THEN "TypeError" ELSE ""

\* get_client_restart_context: the first record of the part was yielded;
\* the names are parsed, or the table is taken from the client data as
\* get_restart_table does and its entries are parsed
ParsePart ==
    /\ pc = "yielded"
    /\ call = "get_client_restart_context"
    /\ \E redo_offset \in {SizeofClientLogHeader, 192},
          number_of_entries \in {0, 1} :
          LET raised ==
                IF context = "attribute_names" THEN ParseAttributeNames
                ELSE IF \/ DataLen(client_data) < SizeofClientLogHeader
                        \/ DataLen(client_data) <
                              redo_offset + SizeofRestartTable
                THEN "ValueError"
                ELSE IF context = "dirty_pages" THEN ParseDirtyPages
                ELSE ParseEntries(number_of_entries)
          IN IF raised # ""
             THEN /\ pc' = "error"
                  /\ err' = raised
                  /\ UNCHANGED <<context, result>>
             ELSE /\ context' = NextPart(context)
                  /\ pc' = IF context = "transactions" THEN "returned"
                           ELSE "context"
                  /\ result' = IF context = "transactions"
                               THEN RestartContext ELSE result
                  /\ UNCHANGED err
    /\ UNCHANGED <<lcb, call, client>>
    /\ UNCHANGED srcVars
    /\ UNCHANGED ctorVars
    /\ UNCHANGED iterVars
    /\ UNCHANGED <<rstVars, convVars, dumpVars, cacheVars, mftVars, againVars>>

----------------------------------------------------------------------------

Next ==
    \/ ScanPage
    \/ FlushPage
    \/ FlushReturn
    \/ RecordsCall
    \/ ReadHeader
    \/ ReadData
    \/ Resume
    \/ ClientRestartAreaCall
    \/ ClientRestartAreaReturn
    \/ RestartTableCall
    \/ RestartTableReturn
    \/ ClientRestartContextCall
    \/ FetchPart
    \/ ParsePart

Spec == Init /\ [][Next]_vars

\* control blocks of logs of several sizes, with equal and with different
\* page sizes, each with the values of seq_number_bits tried for its size
LsnControlBlocks ==
    UNION { { [system_page_size |-> sp, log_page_size |-> lp,
               file_size |-> NumPages * u,
               sequence_number_bits |-> b,
               log_page_data_offset |-> 64] :
                 sp \in {256, 512}, lp \in {256, 512},
                 b \in SeqBitsTried(NumPages * u) } :
            u \in {256, 384, 512} }

\* the LSN conversions of a LogFile, applied to a file offset below
\* file_size and a sequence number
LsnInit ==
    /\ LogFileOver(LsnControlBlocks)
    /\ RestartIdle
    /\ ConvertIdle
    /\ DumpIdle
    /\ pc = "convert"

\* lsn = foffset2lsn(offset, sequence_number)
ConvertLsn ==
    /\ pc = "convert"
    /\ \E offset \in 0..(lcb.file_size - 1),
          sequence_number \in 0..(MaxSeq + 1) :
          /\ conv_offset' = offset
          /\ conv_seqno' = sequence_number
          /\ conv_lsn' = foffset2lsn(offset, sequence_number)
    /\ pc' = "converted"
    /\ UNCHANGED <<lcb, err>>
    /\ UNCHANGED srcVars
    /\ UNCHANGED ctorVars
    /\ UNCHANGED iterVars
    /\ UNCHANGED <<rstVars, callVars, dumpVars, cacheVars, mftVars, againVars>>

LsnNext == ConvertLsn

LsnSpec == LsnInit /\ [][LsnNext]_vars

\* LogFile(logfile_stream, restart_block) called again, on the stream the
\* first LogFile left
ConstructAgain ==
    /\ pc = "ready"
    /\ round = 1
    /\ round' = 2
    /\ first_round' = [first_log_page |-> first_log_page, disk |-> disk,
                       stream_len |-> stream_len]
    /\ scan_pos' = 2 * lcb.system_page_size
    /\ buffer_pages' = << >>
    /\ flush_idx' = 1
    /\ first_log_page' = 0
    /\ pc' = "scan"
    /\ UNCHANGED <<lcb, err>>
    /\ UNCHANGED srcVars
    /\ UNCHANGED iterVars
    /\ UNCHANGED <<rstVars, callVars, convVars, dumpVars, cacheVars, mftVars>>

TwiceNext ==
    \/ ScanPage
    \/ FlushPage
    \/ FlushReturn
    \/ ConstructAgain

TwiceSpec == Init /\ [][TwiceNext]_vars

\* get_log_page called by two LogFile objects made over the source
CacheInit ==
    /\ LogFileInit
    /\ RestartIdle
    /\ ConvertIdle
    /\ DumpIdle
    /\ pc = "cache"

\* one call of get_log_page(self, page); err is what the call raised
GetLogPage ==
    /\ pc = "cache"
    /\ \E self \in Instances, page \in { q \in PageOffsets : q < lcb.file_size } :
       \E got \in get_log_page(page_cache, disk, orig, self, page, {}) :
          /\ cache_call' = [self |-> self, page |-> page]
          /\ page_cache' = got.cache
          /\ orig' = got.orig
          /\ err' = IF got.ok THEN "" ELSE "ValueError"
    /\ UNCHANGED <<lcb, pc, disk, stream_len, wlog>>
    /\ UNCHANGED ctorVars
    /\ UNCHANGED iterVars
    /\ UNCHANGED <<rstVars, callVars, convVars, dumpVars, mftVars, againVars>>

CacheNext == GetLogPage

CacheSpec == CacheInit /\ [][CacheNext]_vars

MixedInit ==
    /\ LogFileOver(MixedControlBlocks)
    /\ RestartIdle
    /\ ConvertIdle
    /\ DumpIdle
    /\ pc = "scan"

MixedNext ==
    \/ ScanPage
    \/ FlushPage
    \/ FlushReturn

MixedSpec == MixedInit /\ [][MixedNext]_vars

----------------------------------------------------------------------------
(* get_lsn_restart_blocks.  A restart page is its header fields and the     *)
(* 16-bit slots of the page that the fixup and current_lsn touch: slot j is *)
(* bytes 2j and 2j+1.  A 64-bit value is its four slots, lowest first.      *)

\* logfile.py: SECTOR_SIZE
SECTOR_SIZE == 512

\* the slots kept: the update sequence array of a two-sector page at
\* usa_ofs 30, current_lsn at restart_offset 48 or 504, the sector tails
RestartSlots == 15..17 \cup 24..27 \cup 252..255 \cup {511}

\* the restart pages tried: an update sequence array that is checked or
\* absent, sector tails that carry the update sequence number 5 or not, a
\* restart area that lies inside the first sector or across its end, a saved
\* last word of the first sector and a current_lsn that differ
RestartPages ==
    { [usa_ofs |-> 30, usa_count |-> c, system_page_size |-> sz,
       restart_offset |-> ro,
       slots |-> [j \in RestartSlots |->
                    IF j = 15 THEN 5
                    ELSE IF j = 16 THEN u1
                    ELSE IF j = 255 THEN t1
                    ELSE IF j = 511 THEN t2
                    ELSE IF j = ro \div 2 THEN low
                    ELSE 0]] :
        c \in {0, 2, 3}, sz \in {0, 1024, 131072}, ro \in {48, 504},
        u1 \in {0, 1}, t1 \in {5, 6}, t2 \in {5, 6}, low \in {1, 2} }

\* a < b for unsigned 64-bit values given as slots
LsnLess(a, b) ==
    \E i \in 1..4 : a[i] < b[i] /\ \A j \in (i + 1)..4 : a[j] = b[j]

\* layout.dofixup, the loop from sector i on: swap the saved word and the
\* sector tail, raise when the tail was not the update sequence number
RECURSIVE FixupFrom(_, _, _)
FixupFrom(page, sector_size, i) ==
    IF i >= page.usa_count
    THEN [ok |-> TRUE, page |-> page]
    ELSE LET pos == page.usa_ofs \div 2 + i
             tail == (sector_size * i) \div 2 - 1
             swapped == [page EXCEPT !.slots[pos] = page.slots[tail],
                                     !.slots[tail] = page.slots[pos]]
         IN IF swapped.slots[pos] # page.slots[page.usa_ofs \div 2]
            THEN [ok |-> FALSE, page |-> swapped]
            ELSE FixupFrom(swapped, sector_size, i + 1)

\* a fixup that copies the sector tails into the update sequence array
\* and leaves the tails as they were
dofixupTailsKept(page, sector_size) ==
    LET fixed == FixupFrom(page, sector_size, 1)
    IN  [ok |-> fixed.ok,
         page |-> [fixed.page EXCEPT !.slots =
                      [j \in DOMAIN page.slots |->
                          IF (j + 1) % (sector_size \div 2) = 0
                          THEN page.slots[j] ELSE fixed.page.slots[j]]]]

\* layout.dofixup(page, sector_size), on a page of whole sectors
dofixup(page, sector_size) == FixupFrom(page, sector_size, 1)

\* get_restart_context: the block of the buffer, with the page it came from
get_restart_context(buffer, index) ==
    [page |-> index,
     current_lsn |-> [i \in 1..4 |->
                        buffer.slots[buffer.restart_offset \div 2 + i - 1]]]

\* the two blocks ordered by the opposite comparison
OlderBlockFirst(first, second) ==
    IF LsnLess(second.current_lsn, first.current_lsn)
    THEN <<second, first>> ELSE <<first, second>>

\* get_lsn_restart_blocks: the two blocks, the one with the higher
\* current_lsn first
NewerBlockFirst(first, second) ==
    IF LsnLess(first.current_lsn, second.current_lsn)
    THEN <<second, first>> ELSE <<first, second>>

\* get_lsn_restart_blocks: the order the blocks are returned in
OrderBlocks(first, second) ==
    LET both == IF first # None /\ second # None
                THEN NewerBlockFirst(first, second) ELSE <<first, second>>
    IN  IF both[1] = None THEN <<both[2], both[1]>> ELSE both

\* the first two pages of a file handed to get_lsn_restart_blocks; the
\* second page lies where the header of the first says
RestartInit ==
    /\ LogFileInit
    /\ rfile \in { <<a, b>> : a \in RestartPages,
                              b \in { q \in RestartPages :
                                        q.system_page_size = 1024 } }
    /\ pages = << >>
    /\ fix_page = 1
    /\ block_first = None
    /\ block_second = None
    /\ ConvertIdle
    /\ DumpIdle
    /\ pc = "inspect"

\* get_lsn_restart_blocks: the header of the first sector is read, the two
\* buffers of system_page_size bytes are made
InspectHeader ==
    /\ pc = "inspect"
    /\ IF rfile[1].system_page_size > 1024 * 64
       THEN /\ pc' = "error"
            /\ err' = "ValueError"
            /\ UNCHANGED pages
       ELSE /\ pc' = "fixup"
            /\ pages' = rfile
            /\ UNCHANGED err
    /\ UNCHANGED <<rfile, fix_page, block_first, block_second>>
    /\ UNCHANGED <<lcb, srcVars, ctorVars, iterVars, callVars, convVars,
                   dumpVars, cacheVars, mftVars, againVars>>

\* get_lsn_restart_blocks: readinto and dofixup of one page.  An empty buffer
\* is too small for MultiSectorHeader.from_buffer_copy.
FixupPage ==
    /\ pc = "fixup"
    /\ IF rfile[1].system_page_size < 8
       THEN /\ pc' = "error"
            /\ err' = "ValueError"
            /\ UNCHANGED <<pages, fix_page>>
       ELSE LET fixed == dofixup(pages[fix_page], SECTOR_SIZE)
            IN /\ pages' = [pages EXCEPT ![fix_page] = fixed.page]
               /\ IF ~fixed.ok
                  THEN /\ pc' = "error"
                       /\ err' = "ValueError"
                       /\ UNCHANGED fix_page
                  ELSE /\ UNCHANGED err
                       /\ IF fix_page = 2
                          THEN pc' = "parse" /\ UNCHANGED fix_page
                          ELSE pc' = "fixup" /\ fix_page' = fix_page + 1
    /\ UNCHANGED <<rfile, block_first, block_second>>
    /\ UNCHANGED <<lcb, srcVars, ctorVars, iterVars, callVars, convVars,
                   dumpVars, cacheVars, mftVars, againVars>>

\* get_lsn_restart_blocks: the blocks are parsed, ordered and returned
ReturnBlocks ==
    /\ pc = "parse"
    /\ LET first == IF rfile[1].system_page_size > 0
                    THEN get_restart_context(pages[1], 0) ELSE None
           second == IF rfile[1].system_page_size > 0
                     THEN get_restart_context(pages[2], 1) ELSE None
           ordered == OrderBlocks(first, second)
       IN /\ block_first' = ordered[1]
          /\ block_second' = ordered[2]
    /\ pc' = "returned"
    /\ UNCHANGED <<rfile, pages, fix_page, err>>
    /\ UNCHANGED <<lcb, srcVars, ctorVars, iterVars, callVars, convVars,
                   dumpVars, cacheVars, mftVars, againVars>>

RestartNext ==
    \/ InspectHeader
    \/ FixupPage
    \/ ReturnBlocks

RestartSpec == RestartInit /\ [][RestartNext]_vars

----------------------------------------------------------------------------
(* dump_logfile: parse_runlist over the mapping pairs of the $LogFile data *)
(* attribute, then the copy of the runs from the volume.  Offsets into     *)
(* run_data count from 0 as in the code, the volume is counted in clusters. *)

\* data[i]
DataByte(i) == run_data[i + 1]

\* data[from:from + n]
DataSlice(from, n) == [k \in 1..n |-> DataByte(from + k - 1)]

\* parse_runlist.to_positive_le_int
RECURSIVE to_positive_le_int(_)
to_positive_le_int(buf) ==
    IF buf = << >> THEN 0
    ELSE buf[1] + 256 * to_positive_le_int(Tail(buf))

\* parse_runlist.to_negative_le_int: every byte ^ 0xFF, plus one, negated
to_negative_le_int(buf) ==
    -(to_positive_le_int([k \in DOMAIN buf |-> 255 - buf[k]]) + 1)

\* parse_runlist.to_le_int: negative when the top bit of the last byte is set
to_le_int(buf) ==
    IF buf[Len(buf)] < 128
    THEN to_positive_le_int(buf)
    ELSE to_negative_le_int(buf)

\* the encodings of one run: header byte (LCN width << 4 | length width),
\* length bytes, LCN delta bytes; lengths below, at and above 64, deltas
\* forward and backward, sparse runs, two-byte fields
RunEncodings ==
    { <<17, len, d>> : len \in {2, 64, 70}, d \in {3, 100, 253} }
    \cup { <<1, len>> : len \in {2, 70} }
    \cup { <<34, 70, 0, 128, 0>> }

RECURSIVE RunLists(_)
RunLists(n) ==
    IF n = 0 THEN { << >> }
    ELSE { r \o rest : r \in RunEncodings, rest \in RunLists(n - 1) }

\* the mapping pairs: one to MaxRuns runs and the terminating zero byte
MappingPairs ==
    UNION { { rs \o <<0>> : rs \in RunLists(n) } : n \in 1..MaxRuns }

\* parse_runlist(data, vcn, runlist_offset) entered from find_data_stream,
\* which found the data attribute first in the file record of a volume
\* with 512-byte clusters and 1024-byte file records
DumpInit ==
    /\ LogFileInit
    /\ RestartIdle
    /\ ConvertIdle
    /\ run_data \in MappingPairs
    /\ bootsector = [bytes_per_sector |-> 512, sectors_per_cluster |-> 1,
                     mft_lcn |-> 4, clusters_per_mft_record |-> -10]
    /\ file_record_size = 1024
    /\ logfile_offset = 4096
    /\ mft_record = PlainMftRecord
    /\ mft_buffer = PlainMftRecord
    /\ file_record =
          << [type |-> TypeData,
              length |-> MappingPairsOffset + qalign(Len(run_data)),
              size |-> MappingPairsOffset + qalign(Len(run_data)),
              pairs |-> run_data] >>
    /\ segment = 0
    /\ data_stream = [state |-> "attribute", attribute |-> 1]
    /\ runlist_offset = 0
    /\ lcn = Lcn(0)
    /\ vcn = 0
    /\ runlist = << >>
    /\ extent = 1
    /\ dump_length = 0
    /\ volume_pos = 0
    /\ reads = << >>
    /\ pc = "parse"

\* parse_runlist: the running lcn behind a run with this LCN delta width
RunningLcn(current, lcn_nibble, delta) ==
    IF lcn_nibble > 0
    THEN Lcn((IF current.is_none THEN 0 ELSE current.n) + delta)
    ELSE NoLcn

\* parse_runlist: one turn of the while loop
ParseRun ==
    /\ pc = "parse"
    /\ DataByte(runlist_offset) # 0
    /\ LET size == DataByte(runlist_offset)
           len_nibble == size % 16
           runlist_length ==
               to_positive_le_int(DataSlice(runlist_offset + 1, len_nibble))
           lcn_nibble == size \div 16
           delta == IF lcn_nibble > 0
                    THEN to_le_int(DataSlice(runlist_offset + 1 + len_nibble,
                                             lcn_nibble))
                    ELSE 0
           next_lcn == RunningLcn(lcn, lcn_nibble, delta)
       IN /\ lcn' = next_lcn
          /\ runlist_offset' = runlist_offset + 1 + len_nibble + lcn_nibble
          /\ runlist' = Append(runlist, [vcn |-> vcn, lcn |-> next_lcn,
                                         length |-> runlist_length])
          /\ vcn' = vcn + runlist_length
    /\ UNCHANGED <<run_data, extent, dump_length, volume_pos, reads>>
    /\ UNCHANGED <<lcb, pc, err>>
    /\ UNCHANGED srcVars
    /\ UNCHANGED ctorVars
    /\ UNCHANGED iterVars
    /\ UNCHANGED <<rstVars, callVars, convVars, cacheVars, mftVars, againVars>>

\* parse_runlist: the zero byte ends the loop, the runlist is returned
ParseReturn ==
    /\ pc = "parse"
    /\ DataByte(runlist_offset) = 0
    /\ pc' = "dump"
    /\ UNCHANGED dumpVars
    /\ UNCHANGED <<lcb, err>>
    /\ UNCHANGED srcVars
    /\ UNCHANGED ctorVars
    /\ UNCHANGED iterVars
    /\ UNCHANGED <<rstVars, callVars, convVars, cacheVars, mftVars, againVars>>

\* dump_logfile: the next (vcn, lcn, length) of the runlist and
\* volume.seek(lcn * cluster_size); None * cluster_size is a TypeError, a
\* negative position an OSError
SeekExtent ==
    /\ pc = "dump"
    /\ extent <= Len(runlist)
    /\ LET run == runlist[extent]
       IN IF run.lcn.is_none
          THEN /\ pc' = "error"
               /\ err' = "TypeError"
               /\ UNCHANGED <<dump_length, volume_pos>>
          ELSE IF run.lcn.n < 0
          THEN /\ pc' = "error"
               /\ err' = "OSError"
               /\ UNCHANGED <<dump_length, volume_pos>>
          ELSE /\ pc' = "copy"
               /\ volume_pos' = run.lcn.n
               /\ dump_length' = run.length
               /\ UNCHANGED err
    /\ UNCHANGED <<run_data, runlist_offset, lcn, vcn, runlist, extent, reads>>
    /\ UNCHANGED lcb
    /\ UNCHANGED srcVars
    /\ UNCHANGED ctorVars
    /\ UNCHANGED iterVars
    /\ UNCHANGED <<rstVars, callVars, convVars, cacheVars, mftVars, againVars>>

\* dump_logfile: num = max(length, 64)
ChunkClusters(remaining) == Max(remaining, 64)

\* dump_logfile: one turn of the while loop, a read of num clusters at the
\* position of the volume (the volume gives what it has), or its end
CopyChunk ==
    /\ pc = "copy"
    /\ IF dump_length > 0
       THEN LET num == ChunkClusters(dump_length)
                got == Max(0, Min(num, VolumeClusters - volume_pos))
            IN /\ reads' = Append(reads, [extent |-> extent,
                                          from |-> volume_pos,
                                          clusters |-> got])
               /\ volume_pos' = volume_pos + got
               /\ dump_length' = dump_length - num
               /\ UNCHANGED <<extent, pc>>
       ELSE /\ extent' = extent + 1
            /\ pc' = "dump"
            /\ UNCHANGED <<reads, volume_pos, dump_length>>
    /\ UNCHANGED <<run_data, runlist_offset, lcn, vcn, runlist>>
    /\ UNCHANGED <<lcb, err>>
    /\ UNCHANGED srcVars
    /\ UNCHANGED ctorVars
    /\ UNCHANGED iterVars
    /\ UNCHANGED <<rstVars, callVars, convVars, cacheVars, mftVars, againVars>>

\* dump_logfile: the for loop is over
DumpReturn ==
    /\ pc = "dump"
    /\ extent > Len(runlist)
    /\ pc' = "dumped"
    /\ UNCHANGED dumpVars
    /\ UNCHANGED <<lcb, err>>
    /\ UNCHANGED srcVars
    /\ UNCHANGED ctorVars
    /\ UNCHANGED iterVars
    /\ UNCHANGED <<rstVars, callVars, convVars, cacheVars, mftVars, againVars>>

DumpNext ==
    \/ ParseRun
    \/ ParseReturn
    \/ SeekExtent
    \/ CopyChunk
    \/ DumpReturn

DumpSpec == DumpInit /\ [][DumpNext]_vars

----------------------------------------------------------------------------
(* dump_logfile from its start: the boot sector, MFT record 2 with its     *)
(* fixup and the scan of its attributes, then parse_runlist and the copy   *)
(* as above.  The file record is its update sequence array, its sector     *)
(* tails and the sequence of its attributes, which run from attr_offset to *)
(* the end of the record.  The last two bytes of the last attribute are    *)
(* the tail of the second sector; no field the scan reads lies there.      *)

\* the boot sectors tried: clusters of 512 and 4096 bytes, the size of a
\* file record given in bytes (negative) and in clusters
BootSectors ==
    { [bytes_per_sector |-> 512, sectors_per_cluster |-> spc,
       mft_lcn |-> 4, clusters_per_mft_record |-> c] :
         spc \in {1, 8}, c \in {-10, 0, 1, 2} }

\* the mapping pairs of the data attributes tried
DataPairs == { <<17, 2, 3, 0>>, <<1, 2, 0>>, <<17, 70, 100, 0>> }

\* the attributes tried: type, the length the attribute declares, the
\* bytes it takes in the record, the mapping pairs of a data attribute
Attributes ==
    { [type |-> TypeStandardInformation, length |-> l, size |-> 24,
       pairs |-> << >>] : l \in {0, 24} }
    \cup { [type |-> TypeData, length |-> l,
            size |-> SizeofNonResidentAttributeRecord, pairs |-> p] :
              l \in {0, SizeofNonResidentAttributeRecord},
              p \in DataPairs }
    \cup { [type |-> TypeEnd, length |-> 0, size |-> 8, pairs |-> << >>] }

RECURSIVE AttributeLists(_)
AttributeLists(n) ==
    IF n = 0 THEN { << >> }
    ELSE { <<a>> \o rest : a \in Attributes, rest \in AttributeLists(n - 1) }

\* the file records tried: one to MaxAttrs attributes
FileRecords == UNION { AttributeLists(n) : n \in 1..MaxAttrs }

\* the update sequence arrays and sector tails of the file records tried:
\* no array, an array for the first sector only, an array for both
\* sectors; the update sequence number is 5, the entries saved are 7 and
\* 8, and a sector tail carries the update sequence number or 6
MftRecords ==
    { PlainMftRecord }
    \cup { [usa_ofs |-> 48, usa_count |-> c,
            slots |-> [j \in MftSlots |->
                         IF j = 24 THEN 5
                         ELSE IF j = 25 THEN 7
                         ELSE IF j = 26 THEN 8
                         ELSE IF j = 255 THEN t1
                         ELSE t2]] :
              c \in {2, 3}, t1 \in {5, 6}, t2 \in {5, 6} }

\* the offset of attribute i in the attributes of the record r
RECURSIVE AttributeStart(_, _)
AttributeStart(r, i) ==
    IF i = 1 THEN 0 ELSE AttributeStart(r, i - 1) + r[i - 1].size

\* len(buffer[attr_offset:])
RecordLength(r) == AttributeStart(r, Len(r) + 1)

\* the attribute of r whose header lies at offset off
AttributeAt(r, off) ==
    CHOOSE i \in DOMAIN r : AttributeStart(r, i) = off

MftInit ==
    /\ LogFileInit
    /\ RestartIdle
    /\ ConvertIdle
    /\ run_data = << >>
    /\ runlist_offset = 0
    /\ lcn = Lcn(0)
    /\ vcn = 0
    /\ runlist = << >>
    /\ extent = 1
    /\ dump_length = 0
    /\ volume_pos = 0
    /\ reads = << >>
    /\ bootsector \in BootSectors
    /\ mft_record \in MftRecords
    /\ mft_buffer = ZeroBuffer
    /\ file_record \in FileRecords
    /\ file_record_size = 0
    /\ logfile_offset = 0
    /\ segment = 0
    /\ data_stream = NoDataStream
    /\ pc = "boot"

\* dump_logfile: cluster_size
cluster_size(b) == b.bytes_per_sector * b.sectors_per_cluster

\* dump_logfile: from the boot sector to volume.seek(logfile_offset).
\* layout.ffs does not exist (ffs is defined in utils), so the branch for
\* a record size given in clusters raises AttributeError.
ReadBootSector ==
    /\ pc = "boot"
    /\ IF bootsector.clusters_per_mft_record < 0
       THEN /\ file_record_size' = Pow2(-bootsector.clusters_per_mft_record)
            /\ logfile_offset' =
                  bootsector.mft_lcn * cluster_size(bootsector)
                  + 2 * Pow2(-bootsector.clusters_per_mft_record)
            /\ pc' = "record"
            /\ UNCHANGED err
       ELSE /\ pc' = "error"
            /\ err' = "AttributeError"
            /\ UNCHANGED <<file_record_size, logfile_offset>>
    /\ UNCHANGED <<bootsector, mft_record, mft_buffer, file_record,
                   segment, data_stream>>
    /\ UNCHANGED lcb
    /\ UNCHANGED srcVars
    /\ UNCHANGED ctorVars
    /\ UNCHANGED iterVars
    /\ UNCHANGED <<rstVars, callVars, convVars, dumpVars, cacheVars,
                   againVars>>

\* dump_logfile: the record is read into buffer and fixed up in place with
\* the sector size of the boot sector; a sector tail that is not the update
\* sequence number raises ValueError before any attribute is looked at.
\* FileRecordSegmentHeader.from_buffer_copy(buffer) gives attr_offset, from
\* where the attributes are handed to find_data_stream.
ReadFileRecord ==
    /\ pc = "record"
    /\ LET fixed == dofixup(mft_record, bootsector.bytes_per_sector)
       IN /\ mft_buffer' = fixed.page
          /\ IF fixed.ok
             THEN pc' = "attrs" /\ UNCHANGED err
             ELSE pc' = "error" /\ err' = "ValueError"
    /\ UNCHANGED <<bootsector, file_record_size, logfile_offset, mft_record,
                   file_record, segment, data_stream>>
    /\ UNCHANGED lcb
    /\ UNCHANGED srcVars
    /\ UNCHANGED ctorVars
    /\ UNCHANGED iterVars
    /\ UNCHANGED <<rstVars, callVars, convVars, dumpVars, cacheVars,
                   againVars>>

\* find_data_stream: one turn of the while loop, or its end.  Without a
\* data attribute find_data_stream returns None and data_stream.runlist
\* raises AttributeError; a data attribute shorter than the attribute
\* record raises ValueError in from_buffer_copy; an attribute of another
\* type that declares the length 0 leaves segment as it is, and the loop
\* goes on with the same segment for ever.
ScanAttribute ==
    /\ pc = "attrs"
    /\ IF \/ RecordLength(file_record) - segment <= 4
          \/ file_record[AttributeAt(file_record, segment)].type = TypeEnd
       THEN /\ data_stream' = [state |-> "None", attribute |-> 0]
            /\ pc' = "error"
            /\ err' = "AttributeError"
            /\ UNCHANGED <<segment, dumpVars>>
       ELSE LET i == AttributeAt(file_record, segment)
                attribute_length == file_record[i].length
            IN  IF file_record[i].type = TypeData
                THEN IF Min(attribute_length,
                            RecordLength(file_record) - segment)
                          < SizeofNonResidentAttributeRecord
                     THEN /\ pc' = "error"
                          /\ err' = "ValueError"
                          /\ UNCHANGED <<segment, data_stream, dumpVars>>
                     ELSE /\ data_stream' = [state |-> "attribute",
                                             attribute |-> i]
                          /\ run_data' = file_record[i].pairs
                          /\ runlist_offset' = 0
                          /\ vcn' = 0
                          /\ lcn' = Lcn(0)
                          /\ runlist' = << >>
                          /\ pc' = "parse"
                          /\ UNCHANGED <<segment, err, extent, dump_length,
                                         volume_pos, reads>>
                ELSE IF attribute_length = 0
                THEN /\ pc' = "hang"
                     /\ UNCHANGED <<segment, data_stream, err, dumpVars>>
                ELSE /\ segment' = segment + attribute_length
                     /\ pc' = "attrs"
                     /\ UNCHANGED <<data_stream, err, dumpVars>>
    /\ UNCHANGED <<bootsector, file_record_size, logfile_offset, mft_record,
                   mft_buffer, file_record>>
    /\ UNCHANGED lcb
    /\ UNCHANGED srcVars
    /\ UNCHANGED ctorVars
    /\ UNCHANGED iterVars
    /\ UNCHANGED <<rstVars, callVars, convVars, cacheVars, againVars>>

MftNext ==
    \/ ReadBootSector
    \/ ReadFileRecord
    \/ ScanAttribute
    \/ ParseRun
    \/ ParseReturn
    \/ SeekExtent
    \/ CopyChunk
    \/ DumpReturn

MftSpec == MftInit /\ [][MftNext]_vars

----------------------------------------------------------------------------
(* Properties of LogFile.records *)

\* C1, as the specification states it: every record yielded has the sequence
\* number of the starting LSN; the iterator stops at the change of sequence
\* number instead of yielding the record behind it.
C1_SameSequenceAsStart ==
    pc = "yielded" => lsn2seqno(record.this_lsn) = lsn2seqno(start_lsn)

\* C1, as the code behaves: every record yielded carries the LSN the iterator
\* expected, its sequence number is never below the one of the starting LSN
\* and never above the iterator's own, which the iterator raises by one
\* each time the log wraps; it keeps yielding behind the wrap.
C1_FollowsIteratorSequence ==
    pc = "yielded" =>
        /\ record.this_lsn = lsn
        /\ lsn2seqno(record.this_lsn) >= lsn2seqno(start_lsn)
        /\ lsn2seqno(record.this_lsn) <= seqno

\* a record of the sequence behind the starting one is yielded, after another
C1_YieldedBehindWrap ==
    /\ pc = "yielded"
    /\ last_yield # -1
    /\ lsn2seqno(record.this_lsn) = lsn2seqno(start_lsn) + 1

\* C2: the this_lsn values of records yielded one after the other are
\* strictly increasing.
C2_StrictlyIncreasing ==
    (pc = "yielded" /\ last_yield # -1) => record.this_lsn > last_yield

\* C3: a stale page or a sequence mismatch on a continuation page ends the
\* sequence cleanly: the StopIteration raised for them reaches the consumer
\* as the end of the iteration, never as an exception.
C3_CleanEnd ==
    ~(pc = "error" /\ err = RaiseStopIteration)

\* C4: the iterator yields finitely many records: every step moves to a
\* strictly later position of the log, so that no record is yielded twice.
\* On a fixed file the iterator's state behind a yield is a function of the
\* record yielded, and a record yielded twice is yielded forever.
C4_NoRecordTwice ==
    pc = "yielded" => record.this_lsn \notin yielded

\* the record yielded ended on the last log page of the file
EndsOnLastLogPage ==
    /\ page_offset >= first_log_page
    /\ page_offset < lcb.file_size
    /\ page_offset + lcb.log_page_size >= lcb.file_size

\* C5: when the record yielded is the last of its page and ends on the last
\* log page of the file, the iterator goes on at file offset first_log_page +
\* log_page_data_offset, raises its sequence number by exactly one, and
\* expects the LSN of that offset in the raised sequence number (the one of
\* the starting LSN plus one, at the first wrap).
C5_WrapToFirstLogPage ==
    [][(pc = "yielded" /\ page_header = lsn /\ EndsOnLastLogPage /\ pc' = "head")
        => /\ seqno' = seqno + 1
           /\ lsn' = foffset2lsn(first_log_page + lcb.log_page_data_offset,
                                 seqno + 1)
           /\ lsn2foffset(lsn') = first_log_page + lcb.log_page_data_offset
           /\ lsn2seqno(lsn') = seqno']_vars

\* the iterator wrapped for the first time and expects the first record of
\* the first log page
C5_WrappedOnce ==
    /\ pc = "head"
    /\ last_yield # -1
    /\ page_header = last_yield
    /\ EndsOnLastLogPage
    /\ seqno = lsn2seqno(start_lsn) + 1
    /\ lsn = foffset2lsn(first_log_page + lcb.log_page_data_offset, seqno)

\* the client data of a record: wanted bytes from the offset off of the page
\* on, then from log_page_data_offset of each following log page
RECURSIVE ClientDataFrom(_, _, _)
ClientDataFrom(page, off, wanted) ==
    IF wanted = 0 THEN << >>
    ELSE LET n == Min(lcb.log_page_size - off, wanted)
             rest == ClientDataFrom(next_log_page(page),
                                    lcb.log_page_data_offset, wanted - n)
         IN IF n > 0 THEN <<[off |-> page + off, len |-> n]>> \o rest
            ELSE rest

\* C6: every record yielded carries exactly client_data_length bytes: those
\* of its page from qalign(offset in page + sizeof(LogRecord)) to the page
\* end, then those of each following log page from log_page_data_offset on,
\* in page order, until the length is reached; the pages are the ones
\* get_log_page returns.
C6_ClientDataLayout ==
    pc = "yielded" =>
        LET at == lsn2foffset(record.this_lsn)
            in_page == at % lcb.log_page_size
        IN /\ DataLen(client_data) = record.client_data_length
           /\ [k \in DOMAIN client_data |->
                 [off |-> client_data[k].off, len |-> client_data[k].len]] =
                ClientDataFrom(at - in_page, qalign(in_page + SizeofLogRecord),
                               record.client_data_length)

\* a record whose client data goes on on the next page was yielded
C6_DataOverTwoPages ==
    /\ pc = "yielded"
    /\ Len(client_data) = 2
    /\ client_data[2].off % lcb.log_page_size = lcb.log_page_data_offset
    /\ DataLen(client_data) = record.client_data_length

----------------------------------------------------------------------------
(* Properties of get_lsn_restart_blocks *)

\* does the page fail the update sequence check: a sector tail that is not
\* the update sequence number
Torn(p) ==
    \E i \in 1..(p.usa_count - 1) :
        p.slots[(SECTOR_SIZE * i) \div 2 - 1] # p.slots[p.usa_ofs \div 2]

\* current_lsn of a page of the file, the sector tails replaced by the words
\* saved in the update sequence array
CurrentLsnOf(p) ==
    [i \in 1..4 |->
        LET j == p.restart_offset \div 2 + i - 1
            sector == (j + 1) \div (SECTOR_SIZE \div 2)
        IN IF (j + 1) % (SECTOR_SIZE \div 2) = 0 /\ sector < p.usa_count
           THEN p.slots[p.usa_ofs \div 2 + sector]
           ELSE p.slots[j]]

\* C7: when both restart pages pass the update sequence check, the block
\* returned first is the one of the page with the higher current_lsn and the
\* block returned second is the one of the other page.
C7_HigherCurrentLsnFirst ==
    (pc = "returned" /\ ~Torn(rfile[1]) /\ ~Torn(rfile[2])) =>
        LET a == CurrentLsnOf(rfile[1])
            b == CurrentLsnOf(rfile[2])
        IN /\ LsnLess(a, b) =>
                /\ block_first = [page |-> 1, current_lsn |-> b]
                /\ block_second = [page |-> 0, current_lsn |-> a]
           /\ LsnLess(b, a) =>
                /\ block_first = [page |-> 0, current_lsn |-> a]
                /\ block_second = [page |-> 1, current_lsn |-> b]

\* the block of page 1 was returned first: its current_lsn, restored by the
\* fixup, is the higher one
C7_SecondPageNewer ==
    /\ pc = "returned"
    /\ rfile[2].usa_count > 0
    /\ rfile[2].restart_offset = 504
    /\ LsnLess(CurrentLsnOf(rfile[1]), CurrentLsnOf(rfile[2]))
    /\ block_first.page = 1
    /\ block_second.page = 0

\* C8: when exactly one of the two restart pages fails the update sequence
\* check, the call returns the block of the other page and None.
C8_TornPageDropped ==
    (/\ pc \in {"returned", "error"}
     /\ rfile[1].system_page_size = 1024
     /\ Torn(rfile[1]) # Torn(rfile[2])) =>
        /\ pc = "returned"
        /\ block_first.page = IF Torn(rfile[1]) THEN 1 ELSE 0
        /\ block_second = None

----------------------------------------------------------------------------
(* Properties of flush_buffer_area *)

\* the value of the word s of the source, read by the step taken
WordRead(s) == IF s = -1 THEN 0 ELSE orig'[s]

\* flush_buffer_area handles the tail page flush_idx in the step taken
Flushing ==
    /\ pc = "flush"
    /\ flush_idx <= Len(buffer_pages)
    /\ flush_idx' = flush_idx + 1

\* copy of the tail page handled, and whether it holds a file offset
TailCopy == WordRead(SrcOf(buffer_pages[flush_idx][1], CopyWord))
TailHoldsOffset == BitAnd(lcb.log_page_size - 1, TailCopy) = 0

\* the destination of the tail page handled
TailDestination == IF TailHoldsOffset THEN TailCopy ELSE lsn2page(TailCopy)

\* the step taken wrote the destination of the tail page handled
DestinationWritten ==
    /\ Len(wlog') = Len(wlog) + 1
    /\ wlog'[Len(wlog')].dest = TailDestination

\* C9: the destination of a tail page is written if and only if the last
\* LSN of the tail page (last_end_lsn when copy holds a file offset,
\* copy.last_lsn when it holds an LSN) is greater than copy.last_lsn at the
\* destination; otherwise the source is left as it was.
C9_OverwriteIffNewer ==
    [][Flushing =>
        LET tail_last ==
                IF TailHoldsOffset
                THEN WordRead(SrcOf(buffer_pages[flush_idx][1], LastEndLsnWord))
                ELSE TailCopy
            dest_last == WordRead(WordSrc(disk, TailDestination + 8))
        IN /\ (tail_last > dest_last) <=> DestinationWritten
           /\ ~DestinationWritten =>
                (disk' = disk /\ wlog' = wlog /\ stream_len' = stream_len)]_vars

\* a tail page newer than its destination was written, the flush goes on
C9_TailPageWritten ==
    /\ pc = "flush"
    /\ flush_idx = 2
    /\ Len(wlog) = 1
    /\ disk # [g \in 0..(NumPages - 1) |-> [src |-> g, patched |-> FALSE]]

\* C10: the image written for a tail page whose copy holds a file offset
\* shows last_end_lsn of the tail page in copy.last_lsn and the tail page's
\* word everywhere else; the image of a tail page whose copy holds an LSN is
\* the tail page; the destination shows the image.
C10_WrittenImage ==
    [][(Flushing /\ DestinationWritten) =>
        LET tail == buffer_pages[flush_idx]
            image == wlog'[Len(wlog')].image
        IN /\ \A w \in 0..(lcb.system_page_size \div 8 - 1) :
                LET u == (w * 8) \div UnitSize + 1
                    k == ((w * 8) % UnitSize) \div 8
                IN /\ SrcOf(image[u], k) =
                        IF TailHoldsOffset /\ w = CopyWord
                        THEN SrcOf(tail[1], LastEndLsnWord)
                        ELSE SrcOf(tail[u], k)
                   /\ WordSrc(disk', TailDestination + w * 8) = SrcOf(image[u], k)
           /\ ~TailHoldsOffset => image = tail]_vars

\* a tail page whose copy holds a file offset was written back, patched
C10_PatchedPageWritten ==
    /\ Len(wlog) > 0
    /\ wlog[1].image[1].patched
    /\ WordSrc(disk, wlog[1].dest + 8) = SrcOf(wlog[1].image[1], LastEndLsnWord)
    /\ orig[SrcOf(wlog[1].image[1], LastEndLsnWord)] > 0

----------------------------------------------------------------------------
(* Properties of the constructor over any pair of page sizes *)

\* C11: the offset flush_buffer_area returns, 2 * system_page_size + n *
\* log_page_size for the n tail pages found, is the read position at which
\* get_buffer_pages stopped, the offset of the page that ended the tail zone.
C11_FirstLogPageIsStopPosition ==
    pc = "ready" => first_log_page = scan_pos - lcb.system_page_size

----------------------------------------------------------------------------
(* Properties of the calls made after the construction *)

\* C12: once the LogFile is constructed, no call of records,
\* get_restart_table, get_client_restart_area or get_client_restart_context
\* writes to the byte source: its contents, its length and the list of
\* writes done stay as they are.
C12_NoWriteAfterConstruction ==
    [][pc \notin {"scan", "flush"} =>
        (disk' = disk /\ stream_len' = stream_len /\ wlog' = wlog)]_vars

\* the flush wrote a tail page to the log area and a call made afterwards
\* has read records from it
C12_ReadAfterFlushWrote ==
    /\ Len(wlog) > 0
    /\ pc \in {"yielded", "returned"}
    /\ record.client_data_length > 0

\* C16: get_client_restart_area for a client that is in the client array
\* with client_restart_lsn = 0 returns the single value None and reads no
\* log record; for a name that is not in the client array it raises
\* ValueError.
C16_NoContextIsNone ==
    (call = "get_client_restart_area" /\ pc \in {"returned", "error"}) =>
        /\ (client.present /\ client.client_restart_lsn = 0) =>
              /\ pc = "returned"
              /\ result = [shape |-> "None"]
              /\ record.this_lsn = 0
        /\ ~client.present => (pc = "error" /\ err = "ValueError")

----------------------------------------------------------------------------
(* C13, C14: the LSN conversions *)

\* C13 as stated: for every offset below file_size and every sequence
\* number, lsn2foffset and lsn2seqno give back the pair that foffset2lsn
\* was called with.
C13_RoundTrip ==
    pc = "converted" =>
    /\ lsn2foffset(conv_lsn) = conv_offset
    /\ lsn2seqno(conv_lsn) = conv_seqno

\* C13, amended: for every offset below file_size that is a multiple of 8
\* and every sequence number, lsn2foffset and lsn2seqno give back the pair
\* that foffset2lsn was called with; for any other offset lsn2foffset
\* gives the offset rounded down to a multiple of 8.
C13_AlignedRoundTrip ==
    pc = "converted" =>
    /\ lsn2seqno(conv_lsn) = conv_seqno
    /\ lsn2foffset(conv_lsn) = conv_offset - (conv_offset % 8)

\* an LSN made of a non-zero aligned offset in the last page of a log
\* whose size is a power of two and whose seq_number_bits goes with
\* file_size_bits, and a non-zero sequence number
C13_AlignedConverted ==
    /\ pc = "converted"
    /\ conv_offset % 8 = 0
    /\ conv_offset >= lcb.file_size - lcb.log_page_size
    /\ conv_seqno > 0
    /\ lcb.file_size = Pow2(BitLength(lcb.file_size) - 1)
    /\ 64 - lcb.sequence_number_bits = file_size_bits
    /\ conv_lsn = foffset2lsn(conv_offset, conv_seqno)

\* the file offset is one where a record header can lie: aligned, behind
\* the restart pages and behind the header of its log page
HeaderOffset(F) ==
    /\ F % 8 = 0
    /\ F >= 2 * lcb.system_page_size
    /\ F % lcb.log_page_size >= lcb.log_page_data_offset

\* C14: for a record header with LSN L at file offset F, lsn2page(L) is the
\* start of the log page that contains F and lsn2poffset(L) is F minus
\* that page start, for equal and for different page sizes.
C14_PageOfHeader ==
    (pc = "converted" /\ HeaderOffset(conv_offset)) =>
        /\ lsn2page(conv_lsn) = conv_offset - (conv_offset % lcb.log_page_size)
        /\ lsn2poffset(conv_lsn) = conv_offset % lcb.log_page_size

----------------------------------------------------------------------------
(* C15: dofixup *)

\* the slot that holds the last two bytes of sector i
SectorTail(i) == (SECTOR_SIZE * i) \div 2 - 1

\* the page p with, for every sector i in 1..n-1, the sector tail and entry
\* i of the update sequence array exchanged, and every other slot as it was
UsaExchanged(p) ==
    [p EXCEPT !.slots =
        [j \in RestartSlots |->
            IF \E i \in 1..(p.usa_count - 1) : j = SectorTail(i)
            THEN p.slots[p.usa_ofs \div 2 +
                         CHOOSE i \in 1..(p.usa_count - 1) : j = SectorTail(i)]
            ELSE IF \E i \in 1..(p.usa_count - 1) : j = p.usa_ofs \div 2 + i
            THEN p.slots[SectorTail(j - p.usa_ofs \div 2)]
            ELSE p.slots[j]]]

\* C15: dofixup of a page whose update sequence array has n entries
\* succeeds exactly when the last two bytes of every sector 1..n-1 equal
\* the first entry of the array; on success the sector tails hold the
\* former entries 1..n-1, the entries hold the former tails and nothing
\* else of the page changed; otherwise it raises ValueError.
C15_FixupExchangesTails ==
    [][(pc = "fixup" /\ rfile[1].system_page_size >= 8) =>
          LET p == pages[fix_page]
          IN  /\ (pc' # "error") <=> ~Torn(p)
              /\ pc' # "error" =>
                    /\ pages'[fix_page] = UsaExchanged(p)
                    /\ \A k \in DOMAIN pages :
                          k # fix_page => pages'[k] = pages[k]
              /\ pc' = "error" => err' = "ValueError"]_vars

\* both pages passed the fixup; the first has a two-entry array and a
\* second sector tail that is not the update sequence number, the second a
\* three-entry array, and the fixup changed both
C15_FixupDone ==
    /\ pc = "parse"
    /\ rfile[1].usa_count = 2
    /\ rfile[1].slots[SectorTail(2)] # rfile[1].slots[rfile[1].usa_ofs \div 2]
    /\ rfile[2].usa_count = 3
    /\ pages[1] # rfile[1]
    /\ pages[2] # rfile[2]

----------------------------------------------------------------------------
(* C17, C18: dump_logfile *)

\* the LCN of the last run of rl that is not sparse, 0 when there is none
RECURSIVE LastLcn(_)
LastLcn(rl) ==
    IF rl = << >> THEN 0
    ELSE IF ~rl[Len(rl)].lcn.is_none THEN rl[Len(rl)].lcn.n
    ELSE LastLcn(SubSeq(rl, 1, Len(rl) - 1))

\* 256^n
RECURSIVE Pow256(_)
Pow256(n) == IF n = 0 THEN 1 ELSE 256 * Pow256(n - 1)

\* the little-endian bytes at from..from+n-1 of run_data as an unsigned
\* number
RECURSIVE UnsignedAt(_, _)
UnsignedAt(from, n) ==
    IF n = 0 THEN 0
    ELSE DataByte(from) + 256 * UnsignedAt(from + 1, n - 1)

\* the same bytes as a two's complement number
SignedAt(from, n) ==
    IF UnsignedAt(from, n) * 2 >= Pow256(n)
    THEN UnsignedAt(from, n) - Pow256(n)
    ELSE UnsignedAt(from, n)

\* C17: parse_runlist emits a run whose LCN delta width is zero with
\* lcn = None and leaves the running LCN as it is: the LCN of a run that is
\* not sparse is the LCN of the last run before it that is not sparse (0
\* at the start) plus its signed delta.
C17_SparseKeepsRunningLcn ==
    [][(pc = "parse" /\ Len(runlist') = Len(runlist) + 1) =>
          LET size == DataByte(runlist_offset)
              len_nibble == size % 16
              lcn_nibble == size \div 16
              run == runlist'[Len(runlist')]
          IN  IF lcn_nibble = 0
              THEN run.lcn = NoLcn
              ELSE run.lcn =
                     Lcn(LastLcn(runlist) +
                         SignedAt(runlist_offset + 1 + len_nibble,
                                  lcn_nibble))]_vars

\* the reads dump_logfile did for extent e
ReadsOf(e) == SelectSeq(reads, LAMBDA r : r.extent = e)

RECURSIVE ClustersRead(_)
ClustersRead(rs) ==
    IF rs = << >> THEN 0 ELSE rs[1].clusters + ClustersRead(Tail(rs))

\* C18: for every extent (vcn, lcn, length) of the runlist that lies in
\* the volume, dump_logfile reads exactly length clusters, from cluster lcn
\* on and none behind the end of the extent.
C18_ReadsExactlyExtent ==
    \A e \in 1..Len(runlist) :
        LET run == runlist[e]
        IN  ( /\ pc \in {"dump", "copy", "dumped"}
              /\ (e < extent \/ pc = "dumped")
              /\ ~run.lcn.is_none
              /\ run.lcn.n >= 0
              /\ run.lcn.n + run.length <= VolumeClusters ) =>
                /\ ClustersRead(ReadsOf(e)) = run.length
                /\ \A k \in 1..Len(ReadsOf(e)) :
                      /\ ReadsOf(e)[k].from >= run.lcn.n
                      /\ ReadsOf(e)[k].from + ReadsOf(e)[k].clusters
                            <= run.lcn.n + run.length

----------------------------------------------------------------------------
(* C19: get_buffer_pages *)

\* C19: tail-zone discovery ends on every log file with at most 32 tail
\* pages; it does not go on reading once the read position is at the end of
\* the file.
C19_DiscoveryEnds ==
    /\ pc # "hang"
    /\ Len(buffer_pages) <= 32

----------------------------------------------------------------------------
(* C20: the next LSN on the same page *)

\* the file offset one byte behind the client data of the yielded record;
\* a record without client data ends where its data would start
ClientDataEnd ==
    IF client_data = << >>
    THEN lsn2page(lsn) + qalign(lsn2poffset(lsn) + SizeofLogRecord)
    ELSE client_data[Len(client_data)].off + client_data[Len(client_data)].len

\* C20: behind a yielded record that is not the last of the page its client
\* data ends on, the next LSN is foffset2lsn(qalign(E), seqno), E the file
\* offset one byte behind the client data, for every client_data_length,
\* 0 included.
C20_NextLsnBehindClientData ==
    [][(pc = "yielded" /\ pc' = "head" /\ page_header # lsn) =>
          lsn' = foffset2lsn(qalign(ClientDataEnd), seqno)]_vars

----------------------------------------------------------------------------
(* C21: the cache of get_log_page *)

\* the pages the cache c holds for the LogFile self
CachedPages(c, self) == { c[k].page : k \in { j \in DOMAIN c : c[j].self = self } }

\* the slots the source d holds in the word w of the log page at page
SourceSlots(d, page, w) ==
    LET s == SrcOf(LogPageImage(d, page)[1], w)
    IN  IF s \in DOMAIN orig THEN orig[s] ELSE ZeroSlots

\* C21: the cache holds at most 4 pages, every cached page is what dofixup
\* makes of the bytes the source holds at its offset, and the cache is
\* private to the LogFile that fills it: a call of get_log_page by one
\* LogFile leaves the pages cached for any other LogFile in the cache.
C21_PrivateCacheOfFour ==
    /\ [](Len(page_cache) <= CacheSize)
    /\ [](\A k \in DOMAIN page_cache :
            LET page == page_cache[k].page
                header == SourceSlots(disk, page, HeaderWord)
                usa == SourceSlots(disk, page, UsaWord)
            IN /\ dofixupLogPage(header, usa).ok
               /\ page_cache[k].image = FixedLogPage(disk, page, header, usa))
    /\ [][\A self \in Instances :
            self # cache_call'.self =>
                CachedPages(page_cache', self) = CachedPages(page_cache, self)]_vars

----------------------------------------------------------------------------
(* C22, C25: dump_logfile up to the data attribute *)

\* C22: behind the boot sector dump_logfile has the file-record size
\* 2^(-clusters_per_mft_record) when clusters_per_mft_record is negative and
\* clusters_per_mft_record * cluster_size otherwise, and reads MFT record 2
\* at mft_lcn * cluster_size + 2 * file_record_size.
C22_FileRecordSize ==
    pc # "boot" =>
        /\ file_record_size =
              IF bootsector.clusters_per_mft_record < 0
              THEN Pow2(-bootsector.clusters_per_mft_record)
              ELSE bootsector.clusters_per_mft_record
                     * cluster_size(bootsector)
        /\ logfile_offset =
              bootsector.mft_lcn * cluster_size(bootsector)
              + 2 * file_record_size

\* C25: every step of the attribute scan returns the data attribute, ends
\* the scan (end mark, end of the record, an error raised) or moves segment
\* to a later attribute, also behind an attribute that declares length 0.
C25_ScanAdvances ==
    [][pc = "attrs" =>
          \/ pc' \in {"parse", "error"}
          \/ (pc' = "attrs" /\ segment' > segment)]_vars

----------------------------------------------------------------------------
(* C23, C24: the writes of flush_buffer_area *)

\* C23: every write of flush_buffer_area lies in the logging area: its
\* destination is not below the first log page and the page written ends
\* at or before file_size.
C23_WritesInLogArea ==
    \A k \in DOMAIN wlog :
        /\ FirstLogPage(Len(buffer_pages)) <= wlog[k].dest
        /\ wlog[k].dest + lcb.system_page_size <= lcb.file_size


\* C24: a second LogFile made over the source that a first one left changes
\* nothing in the source and has the same first_log_page.
C24_FlushIdempotent ==
    (round = 2 /\ pc = "ready") =>
        /\ first_log_page = first_round.first_log_page
        /\ disk = first_round.disk
        /\ stream_len = first_round.stream_len

=============================================================================
